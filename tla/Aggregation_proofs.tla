-------------------------- MODULE Aggregation_proofs --------------------------
(***************************************************************************)
(* The parts that need no thread, for any length of what they are given:   *)
(* the rollup's loop, the built-in checks, the limits of uploads, the risk *)
(* rules, the form, the result object.  Their loops are recursive          *)
(* functions over the positions of a sequence, so induction over them is   *)
(* needed first.  The library states induction for a predicate, which no   *)
(* prover here can instantiate; a set of numbers will do instead.          *)
(***************************************************************************)
EXTENDS MCAggregation, SequenceTheorems, FiniteSetTheorems, WellFoundedInduction, TLAPS

-----------------------------------------------------------------------------
(* Recursion over a sequence. *)

\* A set of numbers has a least one.
LEMMA LeastNumber ==
  ASSUME NEW S \in SUBSET Nat, S # {}
  PROVE  \E m \in S : \A k \in S : m <= k
<1> DEFINE R == {p \in Nat \X Nat : p[1] < p[2]}
<1>1. IsWellFoundedOn(R, Nat)
  <2>1. OpToRel(<, Nat) = R
    BY Zenon DEF OpToRel
  <2> QED BY <2>1, NatLessThanWellFounded
<1>2. PICK m \in S : \A k \in S : <<k, m>> \notin R
  <2> HIDE DEF R
  <2> QED BY <1>1, WFMin
<1>3. ASSUME NEW k \in S PROVE m <= k
  <2>1. m \in Nat /\ k \in Nat /\ ~(k < m)
    BY <1>2
  <2> QED BY <2>1
<1> QED BY <1>3

\* Induction, for a set of numbers instead of a predicate.
LEMMA NatSetInduction ==
  ASSUME NEW T \in SUBSET Nat, 0 \in T, \A n \in T : n + 1 \in T
  PROVE  T = Nat
<1>1. SUFFICES ASSUME Nat \ T # {} PROVE FALSE
  OBVIOUS
<1>2. PICK m \in Nat \ T : \A k \in Nat \ T : m <= k
  BY <1>1, LeastNumber
<1>3. PICK k \in Nat : k + 1 = m
  <2>1. m - 1 \in Nat /\ (m - 1) + 1 = m
    BY <1>2
  <2> QED BY <2>1
<1>4. k \in T
  BY <1>2, <1>3
<1> QED BY <1>2, <1>3, <1>4

\* Two loops that start alike and go on alike compute the same.
LEMMA LoopsAgree ==
  ASSUME NEW n \in Nat, NEW f, NEW g,
         f[0] = g[0], \A i \in 1..n : f[i - 1] = g[i - 1] => f[i] = g[i]
  PROVE  f[n] = g[n]
<1> DEFINE T == {m \in Nat : m <= n => f[m] = g[m]}
<1>1. 0 \in T
  OBVIOUS
<1>2. ASSUME NEW m \in T PROVE m + 1 \in T
  <2>1. m \in Nat /\ m + 1 \in Nat
    OBVIOUS
  <2>2. m + 1 <= n => m + 1 \in 1..n /\ (m + 1) - 1 = m /\ m <= n
    BY <2>1
  <2>3. m + 1 <= n => f[m + 1] = g[m + 1]
    BY <2>2
  <2> QED BY <2>1, <2>3
<1>3. T = Nat
  <2>1. T \in SUBSET Nat
    OBVIOUS
  <2> HIDE DEF T
  <2> QED BY <1>1, <1>2, <2>1, NatSetInduction
<1> QED BY <1>3

\* f tells what a loop of n iterations has after each of them.
IsLoop(f, n, base, next) == f[0] = base /\ \A i \in 1..n : f[i] = next[i][f[i - 1]]

\* A loop of n iterations computes something.
LEMMA LoopEnds ==
  ASSUME NEW n \in Nat, NEW S, NEW base \in S, NEW next \in [1..n -> [S -> S]]
  PROVE  \E f \in [0..n -> S] : IsLoop(f, n, base, next)
<1> DEFINE Good(f, m) == IsLoop(f, m, base, next)
           T == {m \in Nat : m <= n => \E f \in [0..m -> S] : Good(f, m)}
<1>1. 0 \in T
  <2>1. [i \in 0..0 |-> base] \in [0..0 -> S] /\ Good([i \in 0..0 |-> base], 0)
    BY DEF IsLoop
  <2> QED BY <2>1
<1>2. ASSUME NEW m \in T PROVE m + 1 \in T
  <2>1. SUFFICES ASSUME m + 1 <= n PROVE \E f \in [0..(m + 1) -> S] : Good(f, m + 1)
    <3>1. m + 1 \in Nat
      OBVIOUS
    <3> QED BY <3>1
  <2>2. PICK g \in [0..m -> S] : Good(g, m)
    BY <2>1
  <2> DEFINE f == [i \in 0..(m + 1) |-> IF i <= m THEN g[i] ELSE next[i][g[m]]]
  <2>3. f \in [0..(m + 1) -> S]
    BY <2>1
  <2>4. f[0] = base
    BY <2>2 DEF IsLoop
  <2>5. ASSUME NEW i \in 1..(m + 1) PROVE f[i] = next[i][f[i - 1]]
    <3>1. i - 1 \in 0..m /\ f[i - 1] = g[i - 1]
      BY <2>5
    <3>2. CASE i <= m
      BY <2>2, <3>1, <3>2 DEF IsLoop
    <3>3. CASE i = m + 1
      BY <3>1, <3>3
    <3> QED BY <3>2, <3>3
  <2>6. Good(f, m + 1)
    BY <2>4, <2>5 DEF IsLoop
  <2> QED BY <2>3, <2>6
<1>3. T = Nat
  BY <1>1, <1>2, NatSetInduction
<1>4. n \in T
  BY <1>3
<1> QED BY <1>4

LEMMA GreatestNumber ==
  ASSUME NEW n \in Nat, NEW S \in SUBSET (0..n), S # {}
  PROVE  \E m \in S : \A k \in S : k <= m
<1> DEFINE D == {d \in Nat : n - d \in S}
<1>1. PICK x \in S : TRUE
  OBVIOUS
<1>2. x \in 0..n /\ n - x \in Nat /\ n - (n - x) = x
  BY <1>1
<1>3. n - x \in D
  BY <1>1, <1>2
<1>4. PICK d \in D : \A e \in D : d <= e
  BY <1>3, LeastNumber
<1>5. ASSUME NEW k \in S PROVE k <= n - d
  <2>1. k \in 0..n /\ n - k \in Nat /\ n - (n - k) = k
    OBVIOUS
  <2>2. n - k \in D
    BY <2>1
  <2>3. d <= n - k
    BY <1>4, <2>2
  <2> QED BY <2>1, <2>3
<1> QED BY <1>4, <1>5

Descends(f, n, val, next, stop) ==
  f = [e \in 0..n |-> IF e \in stop THEN val[e] ELSE f[next[e]]]

\* A function that is defined by descent exists: `stop` is where it ends.
LEMMA DescentExists ==
  ASSUME NEW n \in Nat, NEW val, NEW next, NEW stop, 0 \in stop,
         \A e \in 1..n : e \notin stop => next[e] \in 0..(e - 1)
  PROVE  \E f : Descends(f, n, val, next, stop)
<1> DEFINE Computes(f, m) == f = [e \in 0..m |-> IF e \in stop THEN val[e] ELSE f[next[e]]]
           T == {m \in Nat : m <= n => \E f : Computes(f, m)}
<1>1. 0 \in T
  <2> DEFINE f == [e \in 0..0 |-> val[e]]
  <2>1. \A e \in 0..0 : e = 0 /\ f[e] = val[e]
    OBVIOUS
  <2>2. Computes(f, 0)
    BY <2>1
  <2> QED BY <2>2
<1>2. ASSUME NEW m \in T PROVE m + 1 \in T
  <2>1. m \in Nat /\ m + 1 \in Nat
    OBVIOUS
  <2> SUFFICES ASSUME m + 1 <= n PROVE \E g : Computes(g, m + 1)
    BY <2>1
  <2>2. PICK f : Computes(f, m)
    BY <2>1
  <2> DEFINE g == [e \in 0..(m + 1) |->
                     IF e <= m THEN f[e] ELSE IF e \in stop THEN val[e] ELSE f[next[e]]]
  <2>3. ASSUME NEW e \in 0..(m + 1)
        PROVE  g[e] = IF e \in stop THEN val[e] ELSE g[next[e]]
    <3>1. CASE e \in stop
      BY <2>1, <2>2, <3>1
    <3>2. CASE e \notin stop
      <4>1. e \in 1..n /\ next[e] \in 0..(e - 1)
        BY <2>1, <3>2
      <4>2. next[e] \in 0..m /\ next[e] \in 0..(m + 1) /\ next[e] <= m
        BY <2>1, <4>1
      <4>3. g[next[e]] = f[next[e]]
        BY <4>2
      <4>4. g[e] = f[next[e]]
        BY <2>1, <2>2, <3>2
      <4> QED BY <3>2, <4>3, <4>4
    <3> QED BY <3>1, <3>2
  <2>4. Computes(g, m + 1)
    <3>1. g = [e \in 0..(m + 1) |-> g[e]]
      OBVIOUS
    <3> HIDE DEF g
    <3> QED BY <2>3, <3>1
  <2> QED BY <2>4
<1>3. T = Nat
  BY <1>1, <1>2, NatSetInduction
<1> QED BY <1>3 DEF Descends

-----------------------------------------------------------------------------
(* The rollup. *)

Verdicts == {Clean, Warned, Blocked}

\* What one iteration of the loop makes of each verdict it may have so far.
LEMMA AfterStepWorse ==
  ASSUME NEW v \in Verdicts, NEW s \in RollupInput
  PROVE  AfterStep(v, s) = IF Blocks(s) THEN Blocked
                           ELSE IF Warns(s) /\ v = Clean THEN Warned ELSE v
<1>1. /\ Rank(RunOrder, "passed") = 1 /\ Rank(RunOrder, "warning") = 2
      /\ Rank(RunOrder, "failed") = 3
  BY DEF Rank, RunOrder
<1>2. /\ Rank(ImpactOrder, "none") = 1 /\ Rank(ImpactOrder, "warning") = 2
      /\ Rank(ImpactOrder, "blocked") = 3
  BY DEF Rank, ImpactOrder
<1>3. CASE NeverCounts(s)
  BY <1>3 DEF AfterStep, Blocks, Warns
<1>4. CASE Blocks(s)
  BY <1>1, <1>2, <1>4 DEF AfterStep, Blocks, Worse, Verdicts, Clean, Warned, Blocked
<1>5. CASE Warns(s)
  <2>1. v.status \in {"passed", "warning", "failed"}
    BY DEF Verdicts, Clean, Warned, Blocked
  <2>2. AfterStep(v, s) = [status |-> Worse(RunOrder, v.status, "warning"),
                           impact |-> Worse(ImpactOrder, v.impact, "warning")]
    BY <1>5 DEF AfterStep, Warns
  <2> QED BY <1>1, <1>2, <1>5, <2>2 DEF Warns, Worse, Verdicts, Clean, Warned, Blocked
<1> QED BY <1>3, <1>4, <1>5 DEF Blocks, Warns

\* aggregate_run's loop computes the closed form for any number of steps.
THEOREM LoopComputesWorst ==
  ASSUME NEW steps \in Seq(RollupInput)
  PROVE  AggregateLoop(steps) = AggregateRun(steps)
<1> DEFINE n == Len(steps)
           Loop(f) == [i \in 0..n |-> IF i = 0 THEN Clean ELSE AfterStep(f[i - 1], steps[i])]
           Worst(i) == IF \E j \in 1..i : Blocks(steps[j]) THEN Blocked
                       ELSE IF \E j \in 1..i : Warns(steps[j]) THEN Warned ELSE Clean
<1>1. n \in Nat /\ \A i \in 1..n : steps[i] \in RollupInput
  OBVIOUS
<1> DEFINE f == [i \in 0..n |-> Worst(i)]
<1>2. ASSUME NEW i \in 1..n PROVE f[i] = AfterStep(f[i - 1], steps[i])
  <2>1. i - 1 \in 0..n /\ f[i] = Worst(i) /\ f[i - 1] = Worst(i - 1)
    BY <1>1
  <2>2. f[i - 1] \in Verdicts
    BY <2>1 DEF Verdicts
  <2>3. /\ (\E j \in 1..i : Blocks(steps[j])) <=> (\E j \in 1..(i - 1) : Blocks(steps[j])) \/ Blocks(steps[i])
        /\ (\E j \in 1..i : Warns(steps[j])) <=> (\E j \in 1..(i - 1) : Warns(steps[j])) \/ Warns(steps[i])
    BY <1>1
  <2>4. Clean # Warned /\ Clean # Blocked /\ Warned # Blocked
    BY DEF Clean, Warned, Blocked
  <2>5. AfterStep(f[i - 1], steps[i]) = IF Blocks(steps[i]) THEN Blocked
             ELSE IF Warns(steps[i]) /\ f[i - 1] = Clean THEN Warned ELSE f[i - 1]
    BY <1>1, <2>2, AfterStepWorse
  <2> HIDE DEF f
  <2> QED BY <2>1, <2>3, <2>4, <2>5
<1>3. f = Loop(f)
  <2>1. f[0] = Clean
    BY <1>1
  <2>2. \A i \in 0..n : i = 0 \/ i \in 1..n
    BY <1>1
  <2> QED BY <1>2, <2>1, <2>2
<1>4. \A g : g = Loop(g) => g[n] = f[n]
  <2> SUFFICES ASSUME NEW g, g = Loop(g) PROVE g[n] = f[n]
    OBVIOUS
  <2>1. g[0] = Clean /\ \A i \in 1..n : g[i] = AfterStep(g[i - 1], steps[i])
    BY <1>1
  <2>2. f[0] = g[0]
    BY <1>1, <2>1
  <2> HIDE DEF f
  <2>3. \A i \in 1..n : f[i - 1] = g[i - 1] => f[i] = g[i]
    BY <1>2, <2>1
  <2> QED BY <1>1, <2>2, <2>3, LoopsAgree
<1>5. AggregateLoop(steps) = f[n]
  <2> HIDE DEF f
  <2> QED BY <1>3, <1>4 DEF AggregateLoop
<1>6. f[n] = Worst(n)
  BY <1>1
<1>7. Worst(n) = AggregateRun(steps)
  BY <1>1 DEF AggregateRun
<1> QED BY <1>5, <1>6, <1>7

\* Of whatever step results, in whatever order (the run's rollup grows by one
\* result at a time).
THEOREM LoopMeetsClosedForm == MCSpec => []LoopIsWorstOf
<1> DEFINE Typed == rollup \in Seq(RollupInput)
<1>1. MCInit => Typed
  BY DEF MCInit
<1>2. Typed /\ [MCNext]_mcVars => Typed'
  BY DEF MCNext, mcVars, growing, AddStepResult, PrintToken, AddSection, AddField, AddFlag
<1>3. Typed => LoopIsWorstOf
  BY LoopComputesWorst DEF LoopIsWorstOf
<1> QED BY <1>1, <1>2, <1>3, PTL DEF MCSpec

-----------------------------------------------------------------------------
(* The built-in checks. *)

LEMMA EarliestIsLeast ==
  ASSUME NEW S \in SUBSET Nat, S # {}
  PROVE  Earliest(S) \in S /\ \A j \in S : Earliest(S) <= j
<1>1. \E m \in S : \A j \in S : m <= j
  BY LeastNumber
<1> QED BY <1>1 DEF Earliest

LEMMA EarliestIsUnique ==
  ASSUME NEW S \in SUBSET Nat, NEW i \in S, \A j \in S \ {i} : i < j
  PROVE  Earliest(S) = i
<1>1. i \in S /\ \A j \in S : i <= j
  OBVIOUS
<1>2. \A m \in S : (\A j \in S : m <= j) => m = i
  OBVIOUS
<1> QED BY <1>1, <1>2 DEF Earliest

Statuses == {"passed", "warning", "failed", "error"}

\* What a step may have seen, and what it may not have scanned.
Sights == {Inventory(P) : P \in SUBSET Pods}
Images == UNION {seen.images : seen \in Sights}

ChecksTypeOK ==
  /\ cluster \in SUBSET Pods
  /\ plan \in Orders
  /\ judged \in Seq(Sights) /\ unscanned \in Seq(SUBSET Images) /\ results \in Seq(Statuses)
  /\ Len(judged) = Len(results) /\ Len(unscanned) = Len(results)

\* Every status is an error or what the executor makes of what it saw.
Explained(i) ==
  \/ results[i] = "error"
  \/ /\ Kind(i) = "security" =>
          results[i] = StatusOf(AnalyzeWorkloads(judged[i].workloads, plan[i].config.on))
     /\ Kind(i) = "policy" =>
          results[i] = PolicyStatus(judged[i].workloads, plan[i].config)
     /\ Kind(i) = "scan" =>
          results[i] = ScanStatus(judged[i].images, unscanned[i], plan[i].config.on)

ChecksInv ==
  /\ ChecksTypeOK
  /\ \A i \in DOMAIN results : Explained(i)
  /\ JudgedTogether

\* A step that ends adds one entry to each of the three sequences.
LEMMA EndsGrows ==
  ASSUME ChecksTypeOK, NEW seen \in Sights, NEW failed \in SUBSET Images,
         NEW status \in Statuses, Ends(seen, failed, status)
  PROVE  /\ ChecksTypeOK'
         /\ DOMAIN results' = DOMAIN results \cup {Current} /\ Current \notin DOMAIN results
         /\ Current = Len(results) + 1 /\ Len(results) \in Nat /\ DOMAIN results = 1..Len(results)
         /\ \A i \in DOMAIN results : /\ judged'[i] = judged[i] /\ unscanned'[i] = unscanned[i]
                                      /\ results'[i] = results[i]
         /\ judged'[Current] = seen /\ unscanned'[Current] = failed /\ results'[Current] = status
<1>1. /\ judged' = Append(judged, seen) /\ unscanned' = Append(unscanned, failed)
      /\ results' = Append(results, status) /\ cluster' = cluster /\ plan' = plan
  BY DEF Ends
<1>2. ChecksTypeOK'
  BY <1>1 DEF ChecksTypeOK
<1> QED BY <1>1, <1>2 DEF ChecksTypeOK, Current

LEMMA ListedIsSight ==
  ASSUME ChecksTypeOK, NEW N PROVE Listed(N) \subseteq Sights
<1>1. {p \in cluster : p.namespace \in N} \in SUBSET Pods /\ {} \in SUBSET Pods
  BY DEF ChecksTypeOK
<1> QED BY <1>1 DEF Listed, Sights

LEMMA DependenciesAreNumbers ==
  ASSUME ChecksTypeOK, Current <= Len(plan)
  PROVE  DOMAIN plan[Current].dependsOn \subseteq Nat
<1>1. plan \in Seq([kind : STRING, dependsOn : Seq(Nat), config : Configs])
  BY ChecksAssumption DEF ChecksTypeOK
<1>2. Current \in 1..Len(plan)
  BY <1>1 DEF Current, ChecksTypeOK
<1>3. plan[Current] \in [kind : STRING, dependsOn : Seq(Nat), config : Configs]
  BY <1>1, <1>2, ElementOfSeq
<1>4. plan[Current].dependsOn \in Seq(Nat)
  BY <1>3
<1> QED BY <1>4

\* The inventory that is meant for the step that runs is the one it gets.
LEMMA UpstreamIsMeant ==
  ASSUME ChecksTypeOK, Current <= Len(plan),
         NEW i \in DOMAIN results, IsFor(i, Current), results[i] = "passed"
  PROVE  FromUpstream = {judged[i]}
<1> DEFINE deps == plan[Current].dependsOn
           declared == {deps[k] : k \in DOMAIN deps}
           own == {k \in DOMAIN deps : deps[k] \in Inventories}
<1>1. Inventories \in SUBSET Nat /\ \A k \in Inventories : k \in 1..(Current - 1)
  <2>1. DOMAIN results = 1..Len(results) /\ Len(results) \in Nat
    BY DEF ChecksTypeOK
  <2> QED BY <2>1 DEF Inventories, Current
<1>2. i \in Inventories
  BY DEF Inventories, IsFor
<1>3. \A k \in Inventories \ {i} : k \notin declared /\ (i \in declared \/ i < k)
  BY <1>1 DEF IsFor, Inventories
<1>4. Upstream = {i}
  <2>1. CASE own # {}
    <3>1. own \in SUBSET Nat
      BY DependenciesAreNumbers
    <3>2. Earliest(own) \in own
      BY <2>1, <3>1, EarliestIsLeast
    <3>3. deps[Earliest(own)] \in Inventories /\ deps[Earliest(own)] \in declared
      BY <3>2
    <3>4. deps[Earliest(own)] = i
      BY <1>3, <3>3
    <3> QED BY <2>1, <3>4 DEF Upstream
  <2>2. CASE own = {}
    <3>1. i \notin declared
      BY <1>2, <2>2
    <3>2. Earliest(Inventories) = i
      BY <1>1, <1>2, <1>3, <3>1, EarliestIsUnique
    <3> QED BY <1>2, <2>2, <3>2 DEF Upstream
  <2> QED BY <2>1, <2>2
<1> QED BY <1>4 DEF FromUpstream

LEMMA AnalysisIsStatus ==
  ASSUME NEW severities PROVE StatusOf(severities) \in Statuses
BY DEF StatusOf, Statuses

LEMMA PolicyIsStatus ==
  ASSUME NEW workloads, NEW config PROVE PolicyStatus(workloads, config) \in Statuses
BY AnalysisIsStatus DEF PolicyStatus, Statuses

LEMMA SightsHaveImages ==
  ASSUME NEW seen \in Sights, NEW config, NEW failed \in MayFail(seen.images, config)
  PROVE  failed \in SUBSET Images /\ ScanStatus(seen.images, failed, config.on) \in Statuses
<1>1. failed \in SUBSET seen.images
  BY DEF MayFail
<1> QED BY <1>1 DEF Images, ScanStatus, Statuses

\* The step that runs and ends is explained by what it saw.
LEMMA EndsKeepsInv ==
  ASSUME ChecksInv, NEW seen \in Sights, NEW failed \in SUBSET Images, NEW status \in Statuses,
         Ends(seen, failed, status), Current <= Len(plan),
         \/ status = "error"
         \/ /\ Kind(Current) = "security" =>
                 status = StatusOf(AnalyzeWorkloads(seen.workloads, Config.on))
            /\ Kind(Current) = "policy" => status = PolicyStatus(seen.workloads, Config)
            /\ Kind(Current) = "scan" => status = ScanStatus(seen.images, failed, Config.on),
         FromUpstream # {} /\ Kind(Current) # "inventory" => seen \in FromUpstream
  PROVE  ChecksInv'
<1>1. ChecksTypeOK /\ plan' = plan
  BY DEF ChecksInv, Ends
<1>2. /\ ChecksTypeOK'
      /\ DOMAIN results' = DOMAIN results \cup {Current} /\ Current \notin DOMAIN results
      /\ Current = Len(results) + 1 /\ Len(results) \in Nat /\ DOMAIN results = 1..Len(results)
      /\ \A i \in DOMAIN results : /\ judged'[i] = judged[i] /\ unscanned'[i] = unscanned[i]
                                   /\ results'[i] = results[i]
      /\ judged'[Current] = seen /\ unscanned'[Current] = failed /\ results'[Current] = status
  BY <1>1, EndsGrows
<1>3. \A i \in DOMAIN results' : Explained(i)'
  <2>1. \A i \in DOMAIN results : Explained(i)'
    BY <1>1, <1>2 DEF ChecksInv, Explained, Kind
  <2> DEFINE n == Current
  <2>2. PICK m : m = Current
    OBVIOUS
  <2>3. Explained(m)'
    BY <1>1, <1>2, <2>2 DEF Explained, Kind, Config
  <2> QED BY <1>2, <2>1, <2>2, <2>3
<1>4. JudgedTogether'
  <2> SUFFICES ASSUME NEW i \in DOMAIN results', NEW j \in DOMAIN results',
                      IsFor(i, j)', results'[i] = "passed"
               PROVE  judged'[j] = judged'[i]
    BY DEF JudgedTogether
  <2>1. IsFor(i, j) /\ i < j
    BY <1>1 DEF IsFor, Kind
  <2>2. CASE j \in DOMAIN results
    <3>1. i \in DOMAIN results
      BY <1>2, <2>1, <2>2
    <3> QED BY <1>2, <2>1, <2>2, <3>1 DEF ChecksInv, JudgedTogether
  <2>3. CASE j = Current
    <3>1. i \in DOMAIN results
      BY <1>2, <2>1, <2>3
    <3>2. FromUpstream = {judged[i]}
      BY <1>1, <1>2, <2>1, <2>3, <3>1, UpstreamIsMeant
    <3>3. Kind(Current) # "inventory"
      BY <2>1, <2>3 DEF IsFor
    <3> QED BY <1>2, <2>3, <3>1, <3>2, <3>3
  <2> QED BY <1>2, <2>2, <2>3
<1> QED BY <1>2, <1>3, <1>4 DEF ChecksInv

LEMMA UpstreamIsInventory ==
  ASSUME ChecksTypeOK, Current <= Len(plan)
  PROVE  Upstream \subseteq Inventories /\ Inventories \subseteq 1..Len(results)
<1> DEFINE deps == plan[Current].dependsOn
           own == {k \in DOMAIN deps : deps[k] \in Inventories}
<1>1. Inventories \in SUBSET Nat /\ Inventories \subseteq 1..Len(results)
  <2>1. DOMAIN results = 1..Len(results) /\ Len(results) \in Nat
    BY DEF ChecksTypeOK
  <2> QED BY <2>1 DEF Inventories
<1>2. own \in SUBSET Nat
  BY DependenciesAreNumbers
<1>3. CASE own # {}
  <2>1. Earliest(own) \in own
    BY <1>2, <1>3, EarliestIsLeast
  <2> QED BY <1>1, <1>3, <2>1 DEF Upstream
<1>4. CASE own = {}
  <2>1. Inventories # {} => Earliest(Inventories) \in Inventories
    BY <1>1, EarliestIsLeast
  <2> QED BY <1>1, <1>4, <2>1 DEF Upstream
<1> QED BY <1>1, <1>3, <1>4

LEMMA EvidenceIsSight ==
  ASSUME ChecksTypeOK, Current <= Len(plan)
  PROVE  Evidence \subseteq Sights /\ (FromUpstream # {} => Evidence = FromUpstream)
<1>1. FromUpstream \subseteq Sights
  BY UpstreamIsInventory DEF FromUpstream, ChecksTypeOK
<1> QED BY <1>1, ListedIsSight DEF Evidence

LEMMA ChecksInvStep == ChecksInv /\ [ChecksNext]_checksVars => ChecksInv'
<1> SUFFICES ASSUME ChecksInv, [ChecksNext]_checksVars PROVE ChecksInv'
  OBVIOUS
<1>1. ChecksTypeOK
  BY DEF ChecksInv
<1>2. CASE /\ cluster' \in SUBSET Pods
           /\ UNCHANGED <<plan, judged, unscanned, results>>
  BY <1>2 DEF ChecksInv, ChecksTypeOK, Explained, Kind, JudgedTogether, IsFor
<1>3. ASSUME NEW p \in Pods, Deploy(p) \/ Remove(p) PROVE ChecksInv'
  BY <1>1, <1>2, <1>3 DEF Deploy, Remove, ChecksTypeOK
<1>4. {} \in SUBSET Images /\ Inventory({}) \in Sights
  BY DEF Sights
<1>5. CASE TakeInventory
  <2>1. PICK seen \in Listed(Included) : Ends(seen, {}, "passed")
    BY <1>5 DEF TakeInventory
  <2>2. seen \in Sights
    BY <1>1, ListedIsSight
  <2>3. Current <= Len(plan) /\ Kind(Current) = "inventory"
    BY <1>5 DEF TakeInventory, Runs
  <2> QED BY <1>4, <2>1, <2>2, <2>3, EndsKeepsInv DEF Statuses
<1>6. CASE InventoryRaises
  <2>1. /\ Ends(Inventory({}), {}, "error")
        /\ Current <= Len(plan) /\ Kind(Current) = "inventory"
    BY <1>6 DEF InventoryRaises, Runs
  <2> QED BY <1>4, <2>1, EndsKeepsInv DEF Statuses
<1>7. CASE EvidenceRaises
  <2>1. /\ Ends(Inventory({}), {}, "error") /\ FromUpstream = {}
        /\ Current <= Len(plan)
    BY <1>7 DEF EvidenceRaises, Runs
  <2> QED BY <1>4, <2>1, EndsKeepsInv DEF Statuses
<1>8. CASE Secure
  <2>1. PICK seen \in Evidence : Ends(seen, {}, StatusOf(AnalyzeWorkloads(seen.workloads, Config.on)))
    BY <1>8 DEF Secure
  <2>2. Current <= Len(plan) /\ Kind(Current) = "security"
    BY <1>8 DEF Secure, Runs
  <2>3. seen \in Sights /\ (FromUpstream # {} => seen \in FromUpstream)
    BY <1>1, <2>2, EvidenceIsSight
  <2> QED BY <1>4, <2>1, <2>2, <2>3, AnalysisIsStatus, EndsKeepsInv
<1>9. CASE Police
  <2>1. PICK seen \in Evidence :
          Ends(seen, {}, PolicyStatus(seen.workloads, Config))
    BY <1>9 DEF Police
  <2>2. Current <= Len(plan) /\ Kind(Current) = "policy"
    BY <1>9 DEF Police, Runs
  <2>3. seen \in Sights /\ (FromUpstream # {} => seen \in FromUpstream)
    BY <1>1, <2>2, EvidenceIsSight
  <2> QED BY <1>4, <2>1, <2>2, <2>3, PolicyIsStatus, EndsKeepsInv
<1>10. CASE Scan
  <2>1. PICK seen \in Evidence : \E failed \in MayFail(seen.images, Config) :
          Ends(seen, failed, ScanStatus(seen.images, failed, Config.on))
    BY <1>10 DEF Scan
  <2>2. PICK failed \in MayFail(seen.images, Config) :
          Ends(seen, failed, ScanStatus(seen.images, failed, Config.on))
    BY <2>1
  <2>3. Current <= Len(plan) /\ Kind(Current) = "scan"
    BY <1>10 DEF Scan, Runs
  <2>4. seen \in Sights /\ (FromUpstream # {} => seen \in FromUpstream)
    BY <1>1, <2>3, EvidenceIsSight
  <2>5. failed \in SUBSET Images /\ ScanStatus(seen.images, failed, Config.on) \in Statuses
    BY <2>4, SightsHaveImages
  <2> QED BY <2>2, <2>3, <2>4, <2>5, EndsKeepsInv
<1>11. CASE UNCHANGED checksVars
  BY <1>1, <1>2, <1>11 DEF checksVars, ChecksTypeOK
<1> QED BY <1>3, <1>5, <1>6, <1>7, <1>8, <1>9, <1>10, <1>11 DEF ChecksNext

LEMMA ChecksInvInit == ChecksInit => ChecksInv
<1> SUFFICES ASSUME ChecksInit PROVE ChecksInv
  OBVIOUS
<1>1. judged = <<>> /\ unscanned = <<>> /\ results = <<>> /\ DOMAIN results = {}
  BY DEF ChecksInit
<1>2. ChecksTypeOK
  BY <1>1 DEF ChecksInit, ChecksTypeOK
<1> QED BY <1>1, <1>2 DEF ChecksInv, JudgedTogether

\* Whatever is deployed or removed while a run goes on, the steps that are meant
\* to judge one inventory judge that one (upstream_of_type and the executors).
THEOREM StepsJudgeOneInventory == ChecksSpec => []JudgedTogether
<1>1. ChecksInv => JudgedTogether
  BY DEF ChecksInv
<1> QED BY <1>1, ChecksInvInit, ChecksInvStep, PTL DEF ChecksSpec

-----------------------------------------------------------------------------
(* What a pass says of a container. *)

LEMMA ContainerIsListed ==
  ASSUME NEW P \in SUBSET Pods, NEW pod \in Pods, Workload(pod) \in Inventory(P).workloads,
         NEW c \in pod.containers \cup pod.initContainers
  PROVE  /\ ContainerInfo(c, pod) \in Containers(Inventory(P).workloads)
         /\ c.image \in Inventory(P).images
<1>1. ContainerInfo(c, pod) \in Workload(pod).containers
  BY DEF Workload, AllContainers
<1>2. ContainerInfo(c, pod) \in Containers(Inventory(P).workloads)
  BY <1>1 DEF Containers
<1>3. Inventory(P).images = {d.image : d \in Containers(Inventory(P).workloads)}
  BY DEF Inventory, Containers
<1>4. ContainerInfo(c, pod).image = c.image
  BY DEF ContainerInfo
<1> QED BY <1>2, <1>3, <1>4

\* A status "passed" means that no finding has a severity that counts.
LEMMA PassedIsClean ==
  ASSUME NEW severities, StatusOf(severities) = "passed"
  PROVE  \A s \in {"critical", "high", "medium", "low"} : s \notin severities
BY DEF StatusOf

LEMMA SecurityPassIsClean ==
  ASSUME NEW workloads, NEW on, StatusOf(AnalyzeWorkloads(workloads, on)) = "passed"
  PROVE  /\ \A w \in workloads :
              /\ ~w.hostPID
              /\ "warnIfHostNetwork" \in on => ~w.hostNetwork
              /\ "warnIfHostPathMounts" \in on => ~w.hostPath
         /\ \A c \in Containers(workloads) :
              /\ ~Privileged(c) /\ ~c.escalates
              /\ "warnIfRunAsRoot" \in on => ~IsRoot(c)
              /\ "warnIfMissingResourceLimits" \in on => c.limited
<1> DEFINE OfPod(w) == Finding(\/ w.hostPID
                               \/ w.hostNetwork /\ "warnIfHostNetwork" \in on
                               \/ w.hostPath /\ "warnIfHostPathMounts" \in on, "high")
           Of(d) == Finding(d.caps \cap RiskyCaps # {}, "high")
                    \cup Finding(d.privileged,
                                 IF "denyPrivilegedContainers" \in on THEN "high" ELSE "medium")
                    \cup Finding(d.escalates \/ (IsRoot(d) /\ "warnIfRunAsRoot" \in on), "medium")
                    \cup Finding(~d.limited /\ "warnIfMissingResourceLimits" \in on, "low")
<1>1. AnalyzeWorkloads(workloads, on)
        = (UNION {OfPod(w) : w \in workloads}) \cup UNION {Of(d) : d \in Containers(workloads)}
  BY Zenon DEF AnalyzeWorkloads
<1>2. ASSUME NEW w \in workloads PROVE "high" \notin OfPod(w)
  <2> HIDE DEF OfPod, Of
  <2>1. OfPod(w) \subseteq AnalyzeWorkloads(workloads, on)
    BY <1>1
  <2> QED BY <2>1, PassedIsClean
<1>3. ASSUME NEW c \in Containers(workloads)
      PROVE  "high" \notin Of(c) /\ "medium" \notin Of(c) /\ "low" \notin Of(c)
  <2> HIDE DEF OfPod, Of
  <2>1. Of(c) \subseteq AnalyzeWorkloads(workloads, on)
    BY <1>1
  <2> QED BY <2>1, PassedIsClean
<1>4. ASSUME NEW w \in workloads
      PROVE  /\ ~w.hostPID
             /\ "warnIfHostNetwork" \in on => ~w.hostNetwork
             /\ "warnIfHostPathMounts" \in on => ~w.hostPath
  BY <1>2, <1>4 DEF Finding
<1>5. ASSUME NEW c \in Containers(workloads)
      PROVE  /\ ~Privileged(c) /\ ~c.escalates
             /\ "warnIfRunAsRoot" \in on => ~IsRoot(c)
             /\ "warnIfMissingResourceLimits" \in on => c.limited
  BY <1>3, <1>5 DEF Finding, Privileged
<1> QED BY <1>4, <1>5

LEMMA PolicyPassIsClean ==
  ASSUME NEW workloads, StatusOf(EvaluatePolicy(workloads, DefaultChecks)) = "passed",
         NEW c \in Containers(workloads)
  PROVE  ~(c.privileged \/ c.caps \cap RiskyCaps # {}) /\ c.limited
<1>1. ASSUME NEW k \in {"no_privileged_containers", "require_resource_limits",
                        "banned_capabilities"}
      PROVE  ~Fires(k, {}, workloads)
  <2>1. /\ k \in DOMAIN DefaultChecks \cap DOMAIN DefaultSeverity
        /\ DefaultChecks[k].severity = "unset" /\ DefaultChecks[k].values = {}
        /\ DefaultSeverity[k] \in {"critical", "high", "medium", "low"}
    BY DEF DefaultChecks, DefaultSeverity
  <2>2. Finding(Fires(k, {}, workloads), DefaultSeverity[k])
          \subseteq EvaluatePolicy(workloads, DefaultChecks)
    BY <2>1 DEF EvaluatePolicy
  <2>3. DefaultSeverity[k] \notin EvaluatePolicy(workloads, DefaultChecks)
    BY <2>1, PassedIsClean
  <2> QED BY <2>2, <2>3 DEF Finding
<1>2. ~Fires("no_privileged_containers", {}, workloads) => ~c.privileged
  BY DEF Fires
<1>3. ~Fires("require_resource_limits", {}, workloads) => c.limited
  BY DEF Fires
<1>4. ~Fires("banned_capabilities", {}, workloads) => c.caps \cap RiskyCaps = {}
  BY DEF Fires, DefaultBannedCaps
<1> QED BY <1>1, <1>2, <1>3, <1>4

LEMMA InvHidesNothing == ChecksInv => PassHidesNothing
<1> SUFFICES ASSUME ChecksInv, NEW i \in DOMAIN results, results[i] = "passed",
                    NEW pod \in Pods, Workload(pod) \in judged[i].workloads
             PROVE
      /\ Kind(i) = "security" => Harmless(pod, plan[i].config.on)
      /\ \A c \in pod.containers \cup pod.initContainers :
           /\ Kind(i) = "policy" /\ plan[i].config.checks = DefaultChecks
                => ~Privileged(c) /\ c.limited
           /\ Kind(i) = "scan" =>
                /\ c.image \notin unscanned[i]
                /\ "failOnCritical" \in plan[i].config.on => "critical" \notin Vulnerable[c.image]
                /\ "warnOnHigh" \in plan[i].config.on => "high" \notin Vulnerable[c.image]
  BY DEF PassHidesNothing
<1>1. judged[i] \in Sights
  BY DEF ChecksInv, ChecksTypeOK
<1>2. ASSUME NEW c \in pod.containers \cup pod.initContainers
      PROVE  /\ ContainerInfo(c, pod) \in Containers(judged[i].workloads)
             /\ c.image \in judged[i].images
  BY <1>1, ContainerIsListed DEF Sights
<1>3. ASSUME NEW c
      PROVE  LET info == ContainerInfo(c, pod)
             IN /\ info.privileged = c.privileged /\ info.caps = c.caps
                /\ info.limited = c.limited /\ info.escalates = c.escalates
                /\ RunsAsRoot(c, pod) => IsRoot(info)
  BY DEF ContainerInfo, RunsAsRoot, IsRoot
<1>4. Explained(i)
  BY DEF ChecksInv
<1>5. ASSUME Kind(i) = "security" PROVE Harmless(pod, plan[i].config.on)
  <2>1. PICK on : on = plan[i].config.on
    OBVIOUS
  <2>2. StatusOf(AnalyzeWorkloads(judged[i].workloads, on)) = "passed"
    BY <1>4, <1>5, <2>1 DEF Explained
  <2>3. /\ ~pod.hostPID
        /\ "warnIfHostNetwork" \in on => ~pod.hostNetwork
        /\ "warnIfHostPathMounts" \in on => "hostPath" \notin pod.volumes
    <3>1. /\ Workload(pod).hostPID = pod.hostPID /\ Workload(pod).hostNetwork = pod.hostNetwork
          /\ Workload(pod).hostPath = ("hostPath" \in pod.volumes)
      BY DEF Workload
    <3> QED BY <2>2, <3>1, SecurityPassIsClean
  <2>4. ASSUME NEW c \in pod.containers \cup pod.initContainers
        PROVE  /\ ~Privileged(c) /\ ~c.escalates
               /\ "warnIfRunAsRoot" \in on => ~RunsAsRoot(c, pod)
               /\ "warnIfMissingResourceLimits" \in on => c.limited
    <3>1. PICK info : info = ContainerInfo(c, pod)
      OBVIOUS
    <3>2. /\ ~Privileged(info) /\ ~info.escalates
          /\ "warnIfRunAsRoot" \in on => ~IsRoot(info)
          /\ "warnIfMissingResourceLimits" \in on => info.limited
      BY <1>2, <2>2, <3>1, SecurityPassIsClean
    <3> QED BY <1>3, <3>1, <3>2 DEF Privileged
  <2> QED BY <2>1, <2>3, <2>4 DEF Harmless
<1>6. ASSUME NEW c \in pod.containers \cup pod.initContainers,
             Kind(i) = "policy", plan[i].config.checks = DefaultChecks
      PROVE  ~Privileged(c) /\ c.limited
  <2>1. StatusOf(EvaluatePolicy(judged[i].workloads, DefaultChecks)) = "passed"
    BY <1>4, <1>6 DEF Explained, PolicyStatus
  <2> QED BY <1>2, <1>3, <2>1, PolicyPassIsClean DEF Privileged
<1>7. ASSUME NEW c \in pod.containers \cup pod.initContainers, Kind(i) = "scan"
      PROVE  /\ c.image \notin unscanned[i]
             /\ "failOnCritical" \in plan[i].config.on => "critical" \notin Vulnerable[c.image]
             /\ "warnOnHigh" \in plan[i].config.on => "high" \notin Vulnerable[c.image]
  <2>1. ScanStatus(judged[i].images, unscanned[i], plan[i].config.on) = "passed"
    BY <1>4, <1>7 DEF Explained
  <2>2. unscanned[i] = {}
    BY <2>1 DEF ScanStatus
  <2>3. Vulnerable[c.image]
          \subseteq UNION {Vulnerable[image] : image \in judged[i].images \ unscanned[i]}
    BY <1>2, <2>2
  <2> QED BY <2>1, <2>2, <2>3 DEF ScanStatus
<1> QED BY <1>5, <1>6, <1>7

\* Whatever the cluster, the order of the steps and what each is configured with: a
\* step that passed hides nothing that its toggles, or its default checks, are to
\* tell of the pods in its inventory (the executors' `run`s).
THEOREM PassesHideNothing == ChecksSpec => []PassHidesNothing
BY ChecksInvInit, ChecksInvStep, InvHidesNothing, PTL DEF ChecksSpec

-----------------------------------------------------------------------------
(* The limits of uploads. *)

LEMMA SumUnfolds ==
  ASSUME NEW sizes \in Seq(Nat)
  PROVE  \E f \in [0..Len(sizes) -> Nat] :
           /\ f[0] = 0 /\ \A i \in 1..Len(sizes) : f[i] = f[i - 1] + sizes[i]
           /\ Sum(sizes) = f[Len(sizes)]
<1> DEFINE n == Len(sizes)
           Loop(f) == [i \in 0..n |-> IF i = 0 THEN 0 ELSE f[i - 1] + sizes[i]]
           next == [i \in 1..n |-> [v \in Nat |-> v + sizes[i]]]
<1>1. n \in Nat /\ \A i \in 1..n : sizes[i] \in Nat
  OBVIOUS
<1>2. next \in [1..n -> [Nat -> Nat]]
  BY <1>1
<1>3. PICK f \in [0..n -> Nat] : IsLoop(f, n, 0, next)
  <2>1. n \in Nat /\ 0 \in Nat
    BY <1>1
  <2> HIDE DEF next, n
  <2> QED BY <1>2, <2>1, LoopEnds, Zenon
<1>4. \A i \in 1..n : f[i - 1] \in Nat /\ f[i] = f[i - 1] + sizes[i]
  <2> SUFFICES ASSUME NEW i \in 1..n PROVE f[i - 1] \in Nat /\ f[i] = f[i - 1] + sizes[i]
    OBVIOUS
  <2>1. i - 1 \in 0..n
    BY <1>1
  <2>2. f[i - 1] \in Nat
    BY <2>1
  <2> QED BY <1>3, <2>2 DEF IsLoop
<1>5. f[0] = 0 /\ f = Loop(f)
  BY <1>1, <1>3, <1>4 DEF IsLoop
<1>6. \A g : g = Loop(g) => g[n] = f[n]
  <2> SUFFICES ASSUME NEW g, g = Loop(g) PROVE g[n] = f[n]
    OBVIOUS
  <2>1. g[0] = f[0] /\ \A i \in 1..n : g[i] = g[i - 1] + sizes[i]
    BY <1>1, <1>5
  <2>2. \A i \in 1..n : f[i - 1] = g[i - 1] => f[i] = g[i]
    BY <1>4, <2>1
  <2> QED BY <1>1, <2>1, <2>2, LoopsAgree
<1>7. Sum(sizes) = f[n]
  BY <1>5, <1>6 DEF Sum
<1> QED BY <1>4, <1>5, <1>7

LEMMA SumOfNone == Sum(<<>>) = 0
<1>1. <<>> \in Seq(Nat) /\ Len(<<>>) = 0
  OBVIOUS
<1> QED BY <1>1, SumUnfolds

LEMMA SumIsNat ==
  ASSUME NEW sizes \in Seq(Nat) PROVE Sum(sizes) \in Nat
<1>1. Len(sizes) \in 0..Len(sizes)
  OBVIOUS
<1> QED BY <1>1, SumUnfolds

LEMMA SumOfOneMore ==
  ASSUME NEW sizes \in Seq(Nat), NEW size \in Nat
  PROVE  Sum(Append(sizes, size)) = Sum(sizes) + size
<1> DEFINE more == Append(sizes, size)
           n == Len(sizes)
<1>1. more \in Seq(Nat) /\ n \in Nat /\ Len(more) = n + 1 /\ more[n + 1] = size
      /\ \A i \in 1..n : more[i] = sizes[i]
  OBVIOUS
<1> HIDE DEF more
<1>2. PICK f \in [0..n -> Nat] : /\ f[0] = 0 /\ \A i \in 1..n : f[i] = f[i - 1] + sizes[i]
                                 /\ Sum(sizes) = f[n]
  BY SumUnfolds
<1>3. PICK g \in [0..(n + 1) -> Nat] :
        /\ g[0] = 0 /\ \A i \in 1..(n + 1) : g[i] = g[i - 1] + more[i]
        /\ Sum(more) = g[n + 1]
  BY <1>1, SumUnfolds
<1>4. \A i \in 1..n : f[i - 1] = g[i - 1] => f[i] = g[i]
  BY <1>1, <1>2, <1>3
<1>5. f[n] = g[n]
  <2>1. f[0] = g[0]
    BY <1>2, <1>3
  <2> QED BY <1>1, <1>4, <2>1, LoopsAgree
<1>6. g[n + 1] = g[(n + 1) - 1] + size /\ (n + 1) - 1 = n
  BY <1>1, <1>3
<1> QED BY <1>2, <1>3, <1>5, <1>6 DEF more

LEMMA SumOfBoth ==
  ASSUME NEW s \in Seq(Nat), NEW t \in Seq(Nat)
  PROVE  Sum(s \o t) = Sum(s) + Sum(t)
<1> DEFINE T == {m \in Nat : \A u \in Seq(Nat) : Len(u) = m => Sum(s \o u) = Sum(s) + Sum(u)}
<1>1. 0 \in T
  <2> SUFFICES ASSUME NEW u \in Seq(Nat), Len(u) = 0 PROVE Sum(s \o u) = Sum(s) + Sum(u)
    OBVIOUS
  <2>1. u = <<>> /\ s \o u = s
    OBVIOUS
  <2>2. Sum(s) \in Nat /\ Sum(u) = 0
    BY <2>1, SumOfNone, SumIsNat
  <2> QED BY <2>1, <2>2
<1>2. ASSUME NEW m \in T PROVE m + 1 \in T
  <2> SUFFICES ASSUME NEW u \in Seq(Nat), Len(u) = m + 1 PROVE Sum(s \o u) = Sum(s) + Sum(u)
    OBVIOUS
  <2>1. PICK v \in Seq(Nat), x \in Nat : u = Append(v, x) /\ Len(v) = m
    <3>1. u = Append(SubSeq(u, 1, m), u[m + 1])
      OBVIOUS
    <3>2. SubSeq(u, 1, m) \in Seq(Nat) /\ u[m + 1] \in Nat /\ Len(SubSeq(u, 1, m)) = m
      OBVIOUS
    <3> QED BY <3>1, <3>2
  <2>2. s \o u = Append(s \o v, x) /\ s \o v \in Seq(Nat)
    BY <2>1
  <2>3. Sum(s \o v) = Sum(s) + Sum(v)
    BY <2>1
  <2>4. Sum(s) \in Nat /\ Sum(v) \in Nat
    BY SumIsNat
  <2>5. Sum(s \o u) = Sum(s \o v) + x
    BY <2>2, SumOfOneMore
  <2>6. Sum(u) = Sum(v) + x
    BY <2>1, SumOfOneMore
  <2> QED BY <2>3, <2>4, <2>5, <2>6
<1>3. T \in SUBSET Nat
  OBVIOUS
<1>4. T = Nat
  <2> HIDE DEF T
  <2> QED BY <1>1, <1>2, <1>3, NatSetInduction
<1>5. Len(t) \in T
  BY <1>4
<1> QED BY <1>5

\* Totals, as a handler may have read them.
Totals == [files : Nat, bytes : Nat, read : BOOLEAN]

\* What a handler keeps fits into what it has counted.
LEMMA KeptFits ==
  ASSUME NEW t \in Totals, NEW post \in Seq(Nat)
  PROVE  /\ Kept(t, post) \in Seq(Nat)
         /\ Kept(t, post) # <<>> => /\ t.files + Len(Kept(t, post)) <= MaxRunFiles
                                    /\ t.bytes + Sum(Kept(t, post)) <= MaxRunBytes
<1> DEFINE n == Len(post)
           Fit(kept) == kept # <<>> => /\ t.files + Len(kept) <= MaxRunFiles
                                       /\ t.bytes + Sum(kept) <= MaxRunBytes
           Files == {kept \in Seq(Nat) : Fit(kept)}
           After(kept, size) ==
             LET now == [files |-> t.files + Len(kept), bytes |-> t.bytes + Sum(kept)]
             IN IF size # NoContent /\ Fits(now, size) THEN Append(kept, size) ELSE kept
           Loop(f) == [i \in 0..n |-> IF i = 0 THEN <<>> ELSE After(f[i - 1], post[i])]
           next == [i \in 1..n |-> [kept \in Files |-> After(kept, post[i])]]
<1>1. n \in Nat /\ \A i \in 1..n : post[i] \in Nat
  OBVIOUS
<1>2. ASSUME NEW kept \in Files, NEW size \in Nat PROVE After(kept, size) \in Files
  <2> DEFINE now == [files |-> t.files + Len(kept), bytes |-> t.bytes + Sum(kept)]
  <2>1. kept \in Seq(Nat) /\ Sum(kept) \in Nat /\ Len(kept) \in Nat
    BY SumIsNat
  <2>2. CASE size # NoContent /\ Fits(now, size)
    <3>1. /\ Append(kept, size) \in Seq(Nat) /\ Len(Append(kept, size)) = Len(kept) + 1
          /\ Sum(Append(kept, size)) = Sum(kept) + size
      BY <2>1, SumOfOneMore
    <3>2. t.files \in Nat /\ t.bytes \in Nat
      BY DEF Totals
    <3>3. /\ t.files + Len(kept) + 1 <= MaxRunFiles
          /\ t.bytes + Sum(kept) + size <= MaxRunBytes
      BY <2>2 DEF Fits
    <3> DEFINE more == Append(kept, size)
    <3>4. t.files + Len(more) <= MaxRunFiles /\ t.bytes + Sum(more) <= MaxRunBytes
      <4> HIDE DEF more
      <4>1. Len(more) = Len(kept) + 1 /\ Sum(more) = Sum(kept) + size
        BY <3>1 DEF more
      <4>2. MaxRunFiles \in Nat /\ MaxRunBytes \in Nat
        BY UploadsAssumption
      <4>3. t.files + (Len(kept) + 1) <= MaxRunFiles
        BY <2>1, <3>2, <3>3, <4>2
      <4>4. t.bytes + (Sum(kept) + size) <= MaxRunBytes
        BY <2>1, <3>2, <3>3, <4>2
      <4> QED BY <4>1, <4>3, <4>4
    <3>5. After(kept, size) = Append(kept, size)
      BY <2>2
    <3> HIDE DEF After
    <3> QED BY <3>1, <3>4, <3>5
  <2>3. CASE ~(size # NoContent /\ Fits(now, size))
    <3>1. After(kept, size) = kept
      BY <2>3
    <3> HIDE DEF After
    <3> QED BY <3>1
  <2> QED BY <2>2, <2>3
<1>3. <<>> \in Files
  OBVIOUS
<1>4. next \in [1..n -> [Files -> Files]]
  <2> HIDE DEF After, Files
  <2> QED BY <1>1, <1>2
<1>5. PICK f \in [0..n -> Files] : IsLoop(f, n, <<>>, next)
  <2>1. n \in Nat
    BY <1>1
  <2> HIDE DEF next, Files, n
  <2> QED BY <1>3, <1>4, <2>1, LoopEnds, Zenon
<1>6. \A i \in 1..n : f[i] = After(f[i - 1], post[i])
  <2> HIDE DEF After, Files
  <2> SUFFICES ASSUME NEW i \in 1..n PROVE f[i] = After(f[i - 1], post[i])
    OBVIOUS
  <2>1. i - 1 \in 0..n
    BY <1>1
  <2>2. f[i - 1] \in Files
    BY <2>1
  <2> QED BY <1>5, <2>2 DEF IsLoop
<1>7. f[0] = <<>> /\ f = Loop(f)
  <2>1. \A i \in 0..n : i = 0 \/ i \in 1..n
    BY <1>1
  <2> HIDE DEF After, Files
  <2> QED BY <1>5, <1>6, <2>1 DEF IsLoop
<1>8. \A g : g = Loop(g) => g[n] = f[n]
  <2> SUFFICES ASSUME NEW g, g = Loop(g) PROVE g[n] = f[n]
    OBVIOUS
  <2> HIDE DEF After, Files
  <2>1. f[0] = g[0] /\ \A i \in 1..n : g[i] = After(g[i - 1], post[i])
    BY <1>1, <1>7
  <2>2. \A i \in 1..n : f[i - 1] = g[i - 1] => f[i] = g[i]
    BY <1>6, <2>1
  <2> QED BY <1>1, <2>1, <2>2, LoopsAgree
<1>9. Kept(t, post) = f[n]
  <2>1. \E g : g = Loop(g)
    BY <1>7
  <2> QED BY <1>8, <2>1 DEF Kept
<1>10. f[n] \in Files
  BY <1>1
<1> QED BY <1>9, <1>10

UploadsTypeOK ==
  /\ stored \in Seq(Nat) /\ accepting \in BOOLEAN
  /\ totals \in [DOMAIN Posts -> Totals]

LEMMA UploadsTypeInit == UploadsInit => UploadsTypeOK
BY DEF UploadsInit, UploadsTypeOK, Unread, Totals

LEMMA UploadsTypeStep == UploadsTypeOK /\ [UploadsNext]_uploadVars => UploadsTypeOK'
<1> SUFFICES ASSUME UploadsTypeOK, [UploadsNext]_uploadVars PROVE UploadsTypeOK'
  OBVIOUS
<1> USE DEF UploadsTypeOK
<1>1. ASSUME NEW u \in DOMAIN Posts, ReadTotals(u) PROVE UploadsTypeOK'
  <2>1. Sum(stored) \in Nat /\ Len(stored) \in Nat
    BY SumIsNat
  <2> QED BY <1>1, <2>1 DEF ReadTotals, Totals
<1>2. ASSUME NEW u \in DOMAIN Posts, CommitPost(u) PROVE UploadsTypeOK'
  <2>1. totals[u] \in Totals /\ Posts[u] \in Seq(Nat)
    BY UploadsAssumption
  <2>2. Kept(totals[u], Posts[u]) \in Seq(Nat)
    BY <2>1, KeptFits
  <2> QED BY <1>2, <2>2 DEF CommitPost, Unread, Totals
<1>3. CASE StoreExecutorsFile(MaxFileBytes)
  BY <1>3, UploadsAssumption DEF StoreExecutorsFile
<1>4. CASE FinishRun
  BY <1>4 DEF FinishRun
<1>5. CASE UNCHANGED uploadVars
  BY <1>5 DEF uploadVars
<1> QED BY <1>1, <1>2, <1>3, <1>4, <1>5 DEF UploadsNext

\* For any posts and limits: a post that counted what is still all there is keeps
\* its run within its limits (ingest).
THEOREM CountedPostsStayWithin == UploadsSpec => LimitsUnlessOverlapped
<1> DEFINE Limits == \A u \in DOMAIN Posts :
             (totals[u].read /\ ~totals'[u].read /\ stored' # stored
                /\ totals[u].files = Len(stored) /\ totals[u].bytes = Sum(stored))
             => Within(stored')
<1>1. UploadsTypeOK /\ [UploadsNext]_uploadVars => [Limits]_uploadVars
  <2> SUFFICES ASSUME UploadsTypeOK, UploadsNext,
                      NEW u \in DOMAIN Posts, totals[u].read, ~totals'[u].read, stored' # stored,
                      totals[u].files = Len(stored), totals[u].bytes = Sum(stored)
               PROVE  Within(stored')
    OBVIOUS
  <2>1. CommitPost(u)
    BY DEF UploadsNext, UploadsTypeOK, ReadTotals, CommitPost, StoreExecutorsFile, FinishRun, Unread
  <2>2. totals[u] \in Totals /\ Posts[u] \in Seq(Nat) /\ stored \in Seq(Nat)
    BY UploadsAssumption DEF UploadsTypeOK
  <2> DEFINE kept == Kept(totals[u], Posts[u])
  <2>3. stored' = stored \o kept
    BY <2>1 DEF CommitPost
  <2>4. kept \in Seq(Nat) /\ (kept # <<>> => /\ totals[u].files + Len(kept) <= MaxRunFiles
                                             /\ totals[u].bytes + Sum(kept) <= MaxRunBytes)
    BY <2>2, KeptFits
  <2> HIDE DEF kept
  <2>5. kept # <<>>
    BY <2>2, <2>3, <2>4
  <2>6. Len(stored') = Len(stored) + Len(kept) /\ Sum(stored') = Sum(stored) + Sum(kept)
    BY <2>2, <2>3, <2>4, SumOfBoth
  <2> QED BY <2>4, <2>5, <2>6 DEF Within
<1> QED BY <1>1, UploadsTypeInit, UploadsTypeStep, PTL DEF UploadsSpec, LimitsUnlessOverlapped

-----------------------------------------------------------------------------
(* The risk rules. *)

LEMMA RiskRanks ==
  RiskRank("low") = 1 /\ RiskRank("medium") = 2 /\ RiskRank("high") = 3
BY DEF RiskRank, RiskLevels

LEMMA RulesOf ==
  ASSUME NEW a
  PROVE  /\ Len(Rules(a)) = 5
         /\ \A i \in 1..5 : Rules(a)[i].to = IF i <= 2 THEN "high" ELSE "medium"
<1>1. Len(Rules(a)) = 5
  BY DEF Rules
<1>2. /\ Rules(a)[1].to = "high" /\ Rules(a)[2].to = "high" /\ Rules(a)[3].to = "medium"
      /\ Rules(a)[4].to = "medium" /\ Rules(a)[5].to = "medium"
  BY DEF Rules
<1>3. ASSUME NEW i \in 1..5 PROVE i = 1 \/ i = 2 \/ i = 3 \/ i = 4 \/ i = 5
  OBVIOUS
<1> QED BY <1>1, <1>2, <1>3

\* The level after i rules: the highest that one of them asks for.
Highest(a, i) ==
  IF \E j \in 1..i : j <= 2 /\ Rules(a)[j].fires THEN "high"
  ELSE IF \E j \in 1..i : Rules(a)[j].fires THEN "medium" ELSE "low"

\* derive_risk's loop has no order to it: the risk is the highest asked for.
LEMMA RiskIsHighest ==
  ASSUME NEW a
  PROVE  DeriveRisk(a) = IF a.sensitive = "unknown" THEN "unknown" ELSE Highest(a, 5)
<1> DEFINE After(level, i) == IF Rules(a)[i].fires THEN Escalate(level, Rules(a)[i].to) ELSE level
           Loop(g) == [i \in 0..Len(Rules(a)) |-> IF i = 0 THEN "low" ELSE After(g[i - 1], i)]
           f == [i \in 0..5 |-> Highest(a, i)]
<1>1. ASSUME NEW i \in 1..5 PROVE f[i] = After(f[i - 1], i)
  <2>1. i - 1 \in 0..5 /\ f[i] = Highest(a, i) /\ f[i - 1] = Highest(a, i - 1)
    OBVIOUS
  <2> HIDE DEF f
  <2>2. /\ (\E j \in 1..i : j <= 2 /\ Rules(a)[j].fires) <=>
             (\E j \in 1..(i - 1) : j <= 2 /\ Rules(a)[j].fires) \/ (i <= 2 /\ Rules(a)[i].fires)
        /\ (\E j \in 1..i : Rules(a)[j].fires) <=>
             (\E j \in 1..(i - 1) : Rules(a)[j].fires) \/ Rules(a)[i].fires
    OBVIOUS
  <2>3. Rules(a)[i].to = IF i <= 2 THEN "high" ELSE "medium"
    BY RulesOf
  <2>4. Highest(a, i - 1) \in {"low", "medium", "high"}
    BY DEF Highest
  <2>5. CASE ~Rules(a)[i].fires
    BY <2>1, <2>2, <2>5 DEF Highest
  <2>6. CASE Rules(a)[i].fires /\ i <= 2
    <3>1. Highest(a, i) = "high" /\ After(f[i - 1], i) = Escalate(Highest(a, i - 1), "high")
      BY <2>1, <2>2, <2>3, <2>6 DEF Highest
    <3> QED BY <2>1, <2>4, <3>1, RiskRanks DEF Escalate
  <2>7. CASE Rules(a)[i].fires /\ ~(i <= 2)
    <3>1. Highest(a, i) = IF Highest(a, i - 1) = "high" THEN "high" ELSE "medium"
      BY <2>2, <2>7 DEF Highest
    <3>2. After(f[i - 1], i) = Escalate(Highest(a, i - 1), "medium")
      BY <2>1, <2>3, <2>7
    <3> QED BY <2>1, <2>4, <3>1, <3>2, RiskRanks DEF Escalate
  <2> QED BY <2>5, <2>6, <2>7
<1>2. f[0] = "low" /\ f = Loop(f)
  <2>1. f[0] = "low"
    BY DEF Highest
  <2>2. \A i \in 0..5 : i = 0 \/ i \in 1..5
    OBVIOUS
  <2>3. f = [i \in 0..5 |-> f[i]]
    OBVIOUS
  <2> HIDE DEF f, After
  <2> QED BY <1>1, <2>1, <2>2, <2>3, RulesOf
<1>3. \A g : g = Loop(g) => g[5] = f[5]
  <2> SUFFICES ASSUME NEW g, g = Loop(g) PROVE g[5] = f[5]
    OBVIOUS
  <2> HIDE DEF f, After
  <2>1. g[0] = f[0] /\ \A i \in 1..5 : g[i] = After(g[i - 1], i)
    BY <1>2, RulesOf
  <2>2. \A i \in 1..5 : f[i - 1] = g[i - 1] => f[i] = g[i]
    BY <1>1, <2>1
  <2> QED BY <2>1, <2>2, LoopsAgree
<1>4. f[5] = Highest(a, 5)
  OBVIOUS
<1> HIDE DEF f
<1>5. DeriveRisk(a) = IF a.sensitive = "unknown" THEN "unknown" ELSE f[5]
  BY <1>2, <1>3, RulesOf DEF DeriveRisk
<1> QED BY <1>4, <1>5

AllAnswers == [flags : SUBSET Flags, classification : {"public", "confidential", "regulated"},
               sensitive : {"yes", "no", "unknown"}]

LEMMA MoreFlagsFireMore ==
  ASSUME NEW a \in AllAnswers,
         NEW flag, NEW i \in 1..5, Rules(a)[i].fires
  PROVE  Rules([a EXCEPT !.flags = @ \cup {flag}])[i].fires
<1> DEFINE b == [a EXCEPT !.flags = @ \cup {flag}]
<1>1. /\ a.flags \subseteq b.flags /\ b.classification = a.classification
      /\ b.sensitive = a.sensitive
  BY DEF AllAnswers
<1> HIDE DEF b
<1>2. i = 1 \/ i = 2 \/ i = 3 \/ i = 4 \/ i = 5
  OBVIOUS
<1>3. ASSUME NEW c
      PROVE  /\ Rules(c)[1].fires = ("calls_external_model_api" \in c.flags
                                       /\ c.classification = "regulated")
             /\ Rules(c)[2].fires = ("takes_actions" \in c.flags)
             /\ Rules(c)[3].fires = ({"uses_enterprise_documents", "uses_vector_db"} \subseteq c.flags)
             /\ Rules(c)[4].fires = (c.classification = "confidential")
             /\ Rules(c)[5].fires = ("internet_egress" \in c.flags /\ c.sensitive = "yes")
  BY Zenon DEF Rules
<1>4. Rules(b)[i].fires
  BY <1>1, <1>2, <1>3
<1> QED BY <1>4 DEF b

\* Whatever was answered before, one more risky answer never lowers the risk
\* (derive_risk).
THEOREM MoreFlagsNeverLower == MCSpec => MoreFlagsNeverLowerRisk
<1> DEFINE Typed == answers \in AllAnswers
           Added == \E flag \in Flags : answers' = [answers EXCEPT !.flags = @ \cup {flag}]
           Never == LET before == DeriveRisk(answers)
                        after == DeriveRisk(answers')
                    IN IF before = "unknown" THEN after = "unknown"
                       ELSE RiskRank(before) <= RiskRank(after)
<1>1. MCInit => Typed
  BY DEF MCInit, Answers, AllAnswers
<1>2. [MCNext]_mcVars => Added \/ answers' = answers
  BY DEF MCNext, mcVars, growing, AddStepResult, PrintToken, AddSection, AddField, AddFlag
<1>3. Typed /\ [MCNext]_mcVars => Typed'
  BY <1>2 DEF AllAnswers
<1>4. Typed /\ [MCNext]_mcVars => [Never]_answers
  <2> SUFFICES ASSUME Typed, NEW flag \in Flags, answers' = [answers EXCEPT !.flags = @ \cup {flag}]
               PROVE  Never
    BY <1>2
  <2>1. PICK b : b = answers'
    OBVIOUS
  <2>2. /\ DeriveRisk(answers) = IF answers.sensitive = "unknown" THEN "unknown"
                                 ELSE Highest(answers, 5)
        /\ DeriveRisk(b) = IF answers.sensitive = "unknown" THEN "unknown" ELSE Highest(b, 5)
    <3>1. b.sensitive = answers.sensitive
      BY <2>1 DEF AllAnswers
    <3> QED BY <3>1, RiskIsHighest
  <2>3. \A i \in 1..5 : Rules(answers)[i].fires => Rules(b)[i].fires
    BY <2>1, MoreFlagsFireMore
  <2>4. RiskRank(Highest(answers, 5)) <= RiskRank(Highest(b, 5))
    BY <2>3, RiskRanks DEF Highest
  <2>5. Highest(answers, 5) # "unknown"
    BY DEF Highest
  <2>6. DeriveRisk(answers') = DeriveRisk(b)
    BY <2>1
  <2> QED BY <2>2, <2>4, <2>5, <2>6
<1> QED BY <1>1, <1>3, <1>4, PTL DEF MCSpec, MoreFlagsNeverLowerRisk

-----------------------------------------------------------------------------
(* The form. *)

\* The strings, with the run's own ones spelt out: the provers know of no literal
\* that it is in STRING.
Strings ==
  STRING \cup {"purpose", "model", "team", "stage", "status", "Not A Name", "label", "blank",
               "select", "text", "x", "y", "s1", "s2", "title"}

FormField == [name : Strings, label : Strings, type : Strings, required : BOOLEAN,
              options : Seq(Strings)]

Section == [id : Strings, title : Strings, fields : Seq(FormField)]

Canonical(fields) == [j \in DOMAIN fields |-> CanonicalizeField(fields[j])]

\* What canonicalizing makes of a field: name and label stay, a core field is its
\* default's in all else, and the next save changes nothing.
LEMMA CanonicalField ==
  ASSUME NEW f \in FormField
  PROVE  /\ CanonicalizeField(f) \in FormField
         /\ CanonicalizeField(f).name = f.name /\ CanonicalizeField(f).label = f.label
         /\ IsCore(f) => /\ CanonicalizeField(f).type = CoreFields[f.name].type
                         /\ CanonicalizeField(f).required = CoreFields[f.name].required
                         /\ CanonicalizeField(f).options = CoreFields[f.name].options
         /\ ~IsCore(f) => /\ CanonicalizeField(f).type = f.type
                          /\ f.type = "select" => CanonicalizeField(f).options = f.options
         /\ CanonicalizeField(CanonicalizeField(f)) = CanonicalizeField(f)
<1> DEFINE g == CanonicalizeField(f)
<1>1. CASE IsCore(f)
  <2>1. f.name \in DOMAIN CoreFields
    BY <1>1 DEF IsCore
  <2>2. CoreFields[f.name] \in [type : Strings, required : BOOLEAN, options : Seq(Strings)]
    <3>1. CoreFields[f.name] \in [type : STRING, required : BOOLEAN, options : Seq(STRING)]
      BY <2>1, FormsAssumption
    <3>2. STRING \subseteq Strings
      BY DEF Strings
    <3>3. \A options \in Seq(STRING) : options \in Seq(Strings)
      BY <3>2, SeqMonotonic
    <3> QED BY <3>1, <3>2, <3>3
  <2>3. g = [f EXCEPT !.type = CoreFields[f.name].type,
                      !.required = CoreFields[f.name].required,
                      !.options = CoreFields[f.name].options]
    BY <1>1 DEF CanonicalizeField, CanonicalizeCoreField
  <2> HIDE DEF g
  <2>4. /\ g \in FormField /\ g.name = f.name /\ g.label = f.label
        /\ g.type = CoreFields[f.name].type /\ g.required = CoreFields[f.name].required
        /\ g.options = CoreFields[f.name].options
    BY <2>2, <2>3 DEF FormField
  <2>5. CanonicalizeField(g) = [g EXCEPT !.type = CoreFields[g.name].type,
                                         !.required = CoreFields[g.name].required,
                                         !.options = CoreFields[g.name].options]
    BY <1>1, <2>4 DEF CanonicalizeField, CanonicalizeCoreField, IsCore
  <2>6. CanonicalizeField(g) = g
    BY <2>4, <2>5 DEF FormField
  <2> QED BY <1>1, <2>4, <2>6 DEF g
<1>2. CASE ~IsCore(f)
  <2>1. g = [f EXCEPT !.options = IF f.type = "select" THEN f.options ELSE <<>>]
    BY <1>2 DEF CanonicalizeField, ValidateCustomField
  <2> HIDE DEF g
  <2> DEFINE kept == IF f.type = "select" THEN f.options ELSE <<>>
  <2>a. kept \in Seq(Strings) /\ g = [f EXCEPT !.options = kept]
    <3>1. f.options \in Seq(Strings) /\ <<>> \in Seq(Strings)
      BY DEF FormField
    <3> QED BY <2>1, <3>1
  <2>2. /\ g \in FormField /\ g.name = f.name /\ g.label = f.label /\ g.type = f.type
        /\ g.options = kept
    <3> HIDE DEF kept
    <3> QED BY <2>a DEF FormField
  <2>3. CanonicalizeField(g) = [g EXCEPT !.options = IF g.type = "select" THEN g.options ELSE <<>>]
    BY <1>2, <2>2 DEF CanonicalizeField, ValidateCustomField, IsCore
  <2>4. CanonicalizeField(g) = g
    BY <2>2, <2>3 DEF FormField
  <2> QED BY <1>2, <2>2, <2>4 DEF g
<1> QED BY <1>1, <1>2

LEMMA CanonicalFields ==
  ASSUME NEW fields \in Seq(FormField)
  PROVE  /\ Canonical(fields) \in Seq(FormField) /\ Len(Canonical(fields)) = Len(fields)
         /\ \A j \in 1..Len(fields) : Canonical(fields)[j] = CanonicalizeField(fields[j])
         /\ Canonical(Canonical(fields)) = Canonical(fields)
<1>1. DOMAIN fields = 1..Len(fields) /\ Len(fields) \in Nat
      /\ \A j \in 1..Len(fields) : fields[j] \in FormField
  OBVIOUS
<1> DEFINE c == Canonical(fields)
<1>2. c = [j \in 1..Len(fields) |-> CanonicalizeField(fields[j])]
  BY <1>1 DEF Canonical
<1> HIDE DEF c
<1>3. \A j \in 1..Len(fields) : c[j] \in FormField /\ CanonicalizeField(c[j]) = c[j]
  BY <1>1, <1>2, CanonicalField
<1>4. c \in Seq(FormField) /\ Len(c) = Len(fields)
  BY <1>1, <1>2, <1>3
<1>5. Canonical(c) = [j \in 1..Len(fields) |-> CanonicalizeField(c[j])]
  BY <1>2 DEF Canonical
<1>6. Canonical(c) = c
  BY <1>2, <1>3, <1>5
<1> QED BY <1>2, <1>4, <1>6 DEF c

LEMMA CanonicalOfBoth ==
  ASSUME NEW s \in Seq(FormField), NEW t \in Seq(FormField)
  PROVE  Canonical(s \o t) = Canonical(s) \o Canonical(t)
<1>1. s \o t \in Seq(FormField) /\ Len(s \o t) = Len(s) + Len(t)
  OBVIOUS
<1>2. /\ Canonical(s) \in Seq(FormField) /\ Len(Canonical(s)) = Len(s)
      /\ \A j \in 1..Len(s) : Canonical(s)[j] = CanonicalizeField(s[j])
  BY CanonicalFields
<1>3. /\ Canonical(t) \in Seq(FormField) /\ Len(Canonical(t)) = Len(t)
      /\ \A j \in 1..Len(t) : Canonical(t)[j] = CanonicalizeField(t[j])
  BY CanonicalFields
<1>4. /\ Canonical(s \o t) \in Seq(FormField) /\ Len(Canonical(s \o t)) = Len(s) + Len(t)
      /\ \A j \in 1..(Len(s) + Len(t)) : Canonical(s \o t)[j] = CanonicalizeField((s \o t)[j])
  BY <1>1, CanonicalFields
<1>5. \A j \in 1..(Len(s) + Len(t)) : Canonical(s \o t)[j] = (Canonical(s) \o Canonical(t))[j]
  <2> SUFFICES ASSUME NEW j \in 1..(Len(s) + Len(t))
               PROVE  Canonical(s \o t)[j] = (Canonical(s) \o Canonical(t))[j]
    OBVIOUS
  <2>1. CASE j <= Len(s)
    BY <1>2, <1>3, <1>4, <2>1
  <2>2. CASE j > Len(s)
    <3>1. j - Len(s) \in 1..Len(t) /\ (s \o t)[j] = t[j - Len(s)]
      BY <2>2
    <3>2. (Canonical(s) \o Canonical(t))[j] = Canonical(t)[j - Len(s)]
      BY <1>2, <1>3, <2>2
    <3>3. Canonical(s \o t)[j] = CanonicalizeField((s \o t)[j])
      BY <1>4
    <3>4. Canonical(t)[j - Len(s)] = CanonicalizeField(t[j - Len(s)])
      BY <1>3, <3>1
    <3>5. CanonicalizeField((s \o t)[j]) = CanonicalizeField(t[j - Len(s)])
      BY <3>1
    <3> QED BY <3>2, <3>3, <3>4, <3>5, Zenon
  <2>3. j \in Nat /\ Len(s) \in Nat
    OBVIOUS
  <2>4. j <= Len(s) \/ j > Len(s)
    BY <2>3
  <2> QED BY <2>1, <2>2, <2>4, Zenon
<1>6. Canonical(s) \o Canonical(t) \in Seq(FormField)
      /\ Len(Canonical(s) \o Canonical(t)) = Len(s) + Len(t)
  <2> DEFINE cs == Canonical(s)
             ct == Canonical(t)
  <2>1. cs \in Seq(FormField) /\ Len(cs) = Len(s) /\ ct \in Seq(FormField) /\ Len(ct) = Len(t)
    BY <1>2, <1>3
  <2> HIDE DEF cs, ct
  <2>2. cs \o ct \in Seq(FormField) /\ Len(cs \o ct) = Len(s) + Len(t)
    BY <2>1
  <2> QED BY <2>2 DEF cs, ct
<1> QED BY <1>4, <1>5, <1>6, SeqEqual

LEMMA SectionFields ==
  ASSUME NEW schema \in Seq(Section)
  PROVE  /\ Len(schema) \in Nat /\ DOMAIN schema = 1..Len(schema)
         /\ \A i \in 1..Len(schema) :
              schema[i] \in Section /\ schema[i].fields \in Seq(FormField)
<1>1. Len(schema) \in Nat /\ DOMAIN schema = 1..Len(schema)
  OBVIOUS
<1>2. ASSUME NEW i \in 1..Len(schema)
      PROVE  schema[i] \in Section /\ schema[i].fields \in Seq(FormField)
  <2>1. schema[i] \in Section
    BY ElementOfSeq
  <2>2. \A x \in Section : x.fields \in Seq(FormField)
    BY DEF Section
  <2> QED BY <2>1, <2>2
<1> QED BY <1>1, <1>2

LEMMA FieldsUnfolds ==
  ASSUME NEW schema \in Seq(Section)
  PROVE  \E f \in [0..Len(schema) -> Seq(FormField)] :
           /\ f[0] = <<>> /\ \A i \in 1..Len(schema) : f[i] = f[i - 1] \o schema[i].fields
           /\ Fields(schema) = f[Len(schema)]
<1> DEFINE n == Len(schema)
           Loop(f) == [i \in 0..n |-> IF i = 0 THEN <<>> ELSE f[i - 1] \o schema[i].fields]
           next == [i \in 1..n |-> [v \in Seq(FormField) |-> v \o schema[i].fields]]
<1>1. n \in Nat /\ \A i \in 1..n : schema[i].fields \in Seq(FormField)
  BY SectionFields
<1>2. next \in [1..n -> [Seq(FormField) -> Seq(FormField)]]
  BY <1>1
<1>3. PICK f \in [0..n -> Seq(FormField)] : IsLoop(f, n, <<>>, next)
  <2>1. n \in Nat /\ <<>> \in Seq(FormField)
    BY <1>1
  <2> HIDE DEF next, n
  <2> QED BY <1>2, <2>1, LoopEnds, Zenon
<1>4. \A i \in 1..n : f[i] = f[i - 1] \o schema[i].fields
  <2> SUFFICES ASSUME NEW i \in 1..n PROVE f[i] = f[i - 1] \o schema[i].fields
    OBVIOUS
  <2>1. i - 1 \in 0..n
    BY <1>1
  <2>2. f[i - 1] \in Seq(FormField)
    BY <2>1
  <2> QED BY <1>3, <2>2 DEF IsLoop
<1>5. f[0] = <<>> /\ f = Loop(f)
  <2>1. f[0] = <<>> /\ f = [i \in 0..n |-> f[i]]
    BY <1>3 DEF IsLoop
  <2>2. \A i \in 0..n : f[i] = IF i = 0 THEN <<>> ELSE f[i - 1] \o schema[i].fields
    <3> SUFFICES ASSUME NEW i \in 0..n
                 PROVE  f[i] = IF i = 0 THEN <<>> ELSE f[i - 1] \o schema[i].fields
      OBVIOUS
    <3> HIDE DEF next, n
    <3>1. CASE i = 0
      BY <2>1, <3>1
    <3>2. CASE i # 0
      <4>1. i \in 1..n
        BY <1>1, <3>2
      <4> QED BY <1>4, <3>2, <4>1, Zenon
    <3> QED BY <3>1, <3>2
  <2> QED BY <2>1, <2>2
<1>6. \A g : g = Loop(g) => g[n] = f[n]
  <2> SUFFICES ASSUME NEW g, g = Loop(g) PROVE g[n] = f[n]
    OBVIOUS
  <2> HIDE DEF n, next
  <2>a. \A i \in 0..n : g[i] = IF i = 0 THEN <<>> ELSE g[i - 1] \o schema[i].fields
    BY Zenon
  <2>b. \A i \in 1..n : i \in 0..n /\ i # 0
    BY <1>1
  <2>c. 0 \in 0..n
    BY <1>1
  <2>1. g[0] = f[0] /\ \A i \in 1..n : g[i] = g[i - 1] \o schema[i].fields
    BY <1>5, <2>a, <2>b, <2>c, Zenon
  <2>2. \A i \in 1..n : f[i - 1] = g[i - 1] => f[i] = g[i]
    BY <1>4, <2>1
  <2> QED BY <1>1, <2>1, <2>2, LoopsAgree
<1>7. Fields(schema) = f[n]
  BY <1>5, <1>6 DEF Fields
<1> QED BY <1>4, <1>5, <1>7

LEMMA CanonicalSchema ==
  ASSUME NEW schema \in Seq(Section)
  PROVE  /\ Canonicalize(schema) \in Seq(Section) /\ Len(Canonicalize(schema)) = Len(schema)
         /\ \A i \in 1..Len(schema) :
              /\ Canonicalize(schema)[i].id = schema[i].id
              /\ Canonicalize(schema)[i].title = schema[i].title
              /\ Canonicalize(schema)[i].fields = Canonical(schema[i].fields)
<1> DEFINE saved == Canonicalize(schema)
<1>1. /\ DOMAIN schema = 1..Len(schema) /\ Len(schema) \in Nat
      /\ \A i \in 1..Len(schema) : schema[i] \in Section
  OBVIOUS
<1>2. saved = [i \in 1..Len(schema) |-> [schema[i] EXCEPT !.fields = Canonical(schema[i].fields)]]
  BY <1>1 DEF Canonicalize, Canonical
<1> HIDE DEF saved
<1>3. ASSUME NEW i \in 1..Len(schema)
      PROVE  /\ saved[i] \in Section /\ saved[i].id = schema[i].id
             /\ saved[i].title = schema[i].title /\ saved[i].fields = Canonical(schema[i].fields)
  <2>1. schema[i] \in Section /\ Canonical(schema[i].fields) \in Seq(FormField)
    BY <1>1, CanonicalFields DEF Section
  <2> QED BY <1>2, <2>1 DEF Section
<1>4. saved \in Seq(Section) /\ Len(saved) = Len(schema)
  <2>1. saved \in [1..Len(schema) -> Section]
    BY <1>2, <1>3
  <2> QED BY <1>1, <2>1
<1> QED BY <1>3, <1>4 DEF saved

\* All fields of the saved schema are the canonical ones, in their order.
LEMMA FieldsOfCanonical ==
  ASSUME NEW schema \in Seq(Section)
  PROVE  Fields(schema) \in Seq(FormField) /\ Fields(Canonicalize(schema)) = Canonical(Fields(schema))
<1> DEFINE saved == Canonicalize(schema)
           n == Len(schema)
<1>1. /\ saved \in Seq(Section) /\ Len(saved) = n /\ n \in Nat
      /\ \A i \in 1..n : saved[i].fields = Canonical(schema[i].fields)
  BY CanonicalSchema
<1> HIDE DEF saved
<1>2. PICK f \in [0..n -> Seq(FormField)] :
        /\ f[0] = <<>> /\ \A i \in 1..n : f[i] = f[i - 1] \o schema[i].fields
        /\ Fields(schema) = f[n]
  BY FieldsUnfolds
<1>3. PICK g \in [0..n -> Seq(FormField)] :
        /\ g[0] = <<>> /\ \A i \in 1..n : g[i] = g[i - 1] \o saved[i].fields
        /\ Fields(saved) = g[n]
  BY <1>1, FieldsUnfolds
<1> DEFINE h == [i \in 0..n |-> Canonical(f[i])]
<1>4. h[0] = g[0]
  <2>1. Canonical(<<>>) = <<>>
    BY DEF Canonical
  <2> QED BY <1>1, <1>2, <1>3, <2>1
<1>5. \A i \in 1..n : h[i - 1] = g[i - 1] => h[i] = g[i]
  <2> SUFFICES ASSUME NEW i \in 1..n, h[i - 1] = g[i - 1] PROVE h[i] = g[i]
    OBVIOUS
  <2>1. /\ i - 1 \in 0..n /\ f[i - 1] \in Seq(FormField) /\ schema[i].fields \in Seq(FormField)
        /\ h[i] = Canonical(f[i]) /\ h[i - 1] = Canonical(f[i - 1])
    BY <1>1, SectionFields
  <2> HIDE DEF h
  <2>2. Canonical(f[i]) = Canonical(f[i - 1]) \o Canonical(schema[i].fields)
    BY <1>2, <2>1, CanonicalOfBoth
  <2>3. g[i] = g[i - 1] \o Canonical(schema[i].fields)
    BY <1>1, <1>3
  <2> QED BY <2>1, <2>2, <2>3
<1>6. h[n] = g[n]
  <2> HIDE DEF h
  <2> QED BY <1>1, <1>4, <1>5, LoopsAgree
<1>7. h[n] = Canonical(f[n]) /\ f[n] \in Seq(FormField)
  BY <1>1
<1> QED BY <1>2, <1>3, <1>6, <1>7 DEF saved

\* Any schema that an admin may save keeps the built-in fields.
THEOREM SavedFormsKeepCore ==
  ASSUME NEW schema \in Seq(Section)
  PROVE  KeepsCore(schema)
<1> SUFFICES ASSUME SchemaAccepted(schema) PROVE KeepsCore(schema)
  BY DEF KeepsCore
<1> DEFINE saved == Canonicalize(schema)
           given == Fields(schema)
           fields == Fields(saved)
           m == Len(given)
<1>1. /\ saved \in Seq(Section) /\ Len(saved) = Len(schema)
      /\ \A i \in 1..Len(schema) : /\ saved[i].id = schema[i].id /\ saved[i].title = schema[i].title
                                   /\ saved[i].fields = Canonical(schema[i].fields)
  BY CanonicalSchema
<1>2. given \in Seq(FormField) /\ fields = Canonical(given)
  BY FieldsOfCanonical
<1>3. /\ fields \in Seq(FormField) /\ Len(fields) = m /\ m \in Nat
      /\ \A j \in 1..m : fields[j] = CanonicalizeField(given[j]) /\ given[j] \in FormField
  BY <1>2, CanonicalFields
<1>4. \A j \in 1..m : fields[j].name = given[j].name /\ fields[j].label = given[j].label
  BY <1>3, CanonicalField
<1>5. DOMAIN given = 1..m /\ DOMAIN fields = 1..m /\ DOMAIN schema = 1..Len(schema)
      /\ DOMAIN saved = 1..Len(schema)
  BY <1>1, <1>2, <1>3
<1> HIDE DEF saved, given, fields, m
<1> DEFINE names == [i \in DOMAIN given |-> given[i].name]
<1>6. /\ schema # <<>> /\ NoDuplicates([i \in DOMAIN schema |-> schema[i].id])
      /\ NoDuplicates(names)
      /\ \A i \in DOMAIN schema : schema[i].title # "blank"
      /\ \A i \in DOMAIN given :
           given[i].label # "blank" /\ (IsCore(given[i]) \/ CustomFieldAccepted(given[i]))
      /\ DOMAIN CoreFields \subseteq {names[i] : i \in DOMAIN names}
  BY DEF SchemaAccepted, given
<1>7. [i \in DOMAIN fields |-> fields[i].name] = names
  BY <1>4, <1>5
<1>8. SchemaAccepted(saved)
  <2>1. [i \in DOMAIN saved |-> saved[i].id] = [i \in DOMAIN schema |-> schema[i].id]
    BY <1>1, <1>5
  <2>2. saved # <<>> /\ \A i \in DOMAIN saved : saved[i].title # "blank"
    BY <1>1, <1>5, <1>6
  <2>3. ASSUME NEW i \in DOMAIN fields
        PROVE  fields[i].label # "blank" /\ (IsCore(fields[i]) \/ CustomFieldAccepted(fields[i]))
    <3>1. given[i].label # "blank" /\ (IsCore(given[i]) \/ CustomFieldAccepted(given[i]))
      BY <1>5, <1>6
    <3>2. IsCore(given[i]) <=> IsCore(fields[i])
      BY <1>4, <1>5 DEF IsCore
    <3>3. ~IsCore(given[i]) =>
            /\ fields[i].type = given[i].type
            /\ given[i].type = "select" => fields[i].options = given[i].options
      BY <1>3, <1>5, CanonicalField
    <3>4. fields[i].name = given[i].name /\ fields[i].label = given[i].label
      BY <1>4, <1>5
    <3>5. ~IsCore(given[i]) => CustomFieldAccepted(fields[i])
      <4> SUFFICES ASSUME ~IsCore(given[i]), CustomFieldAccepted(given[i])
                   PROVE  CustomFieldAccepted(fields[i])
        BY <3>1
      <4>1. given[i].type = "select" =>
              fields[i].options = given[i].options /\ fields[i].type = "select"
        BY <3>3
      <4>2. fields[i].type = "select" => given[i].type = "select"
        BY <3>3
      <4> QED BY <3>4, <4>1, <4>2 DEF CustomFieldAccepted
    <3> QED BY <3>1, <3>2, <3>4, <3>5
  <2> DEFINE savedIds == [i \in DOMAIN saved |-> saved[i].id]
             savedNames == [i \in DOMAIN fields |-> fields[i].name]
  <2>4. NoDuplicates(savedIds) /\ NoDuplicates(savedNames)
        /\ DOMAIN CoreFields \subseteq {savedNames[i] : i \in DOMAIN savedNames}
    <3> HIDE DEF names
    <3> QED BY <1>6, <1>7, <2>1
  <2> QED BY <2>2, <2>3, <2>4, Zenon DEF SchemaAccepted, fields
<1>9. Canonicalize(saved) = saved
  <2>1. /\ Canonicalize(saved) \in Seq(Section) /\ Len(Canonicalize(saved)) = Len(saved)
        /\ \A i \in 1..Len(saved) :
             /\ Canonicalize(saved)[i].id = saved[i].id
             /\ Canonicalize(saved)[i].title = saved[i].title
             /\ Canonicalize(saved)[i].fields = Canonical(saved[i].fields)
    BY <1>1, CanonicalSchema
  <2>2. ASSUME NEW i \in 1..Len(saved) PROVE Canonicalize(saved)[i] = saved[i]
    <3>1. schema[i].fields \in Seq(FormField)
      BY <1>1, SectionFields
    <3>2. Canonical(saved[i].fields) = saved[i].fields
      BY <1>1, <3>1, CanonicalFields
    <3>3. Canonicalize(saved)[i] \in Section /\ saved[i] \in Section
      BY <1>1, <2>1
    <3>4. \A x, y \in Section : x.id = y.id /\ x.title = y.title /\ x.fields = y.fields => x = y
      BY DEF Section
    <3>5. /\ Canonicalize(saved)[i].id = saved[i].id
          /\ Canonicalize(saved)[i].title = saved[i].title
          /\ Canonicalize(saved)[i].fields = saved[i].fields
      BY <2>1, <3>2
    <3> QED BY <3>3, <3>4, <3>5, Zenon
  <2> QED BY <1>1, <2>1, <2>2, SeqEqual
<1>10. ASSUME NEW name \in DOMAIN CoreFields
       PROVE  LET at == {i \in DOMAIN fields : fields[i].name = name}
              IN /\ Cardinality(at) = 1
                 /\ \A i \in at : /\ fields[i].type = CoreFields[name].type
                                  /\ fields[i].required = CoreFields[name].required
                                  /\ fields[i].options = CoreFields[name].options
  <2> DEFINE at == {i \in DOMAIN fields : fields[i].name = name}
  <2>1. PICK k \in 1..m : given[k].name = name
    BY <1>5, <1>6
  <2>2. \A i \in 1..m : given[i].name = name => i = k
    BY <1>5, <1>6, <2>1 DEF NoDuplicates
  <2>3. at = {k}
    BY <1>4, <1>5, <2>1, <2>2
  <2>4. Cardinality(at) = 1
    BY <2>3, FS_Singleton
  <2>5. IsCore(given[k])
    BY <2>1 DEF IsCore
  <2>6. /\ fields[k].type = CoreFields[name].type
        /\ fields[k].required = CoreFields[name].required
        /\ fields[k].options = CoreFields[name].options
    BY <1>3, <2>1, <2>5, CanonicalField
  <2> QED BY <2>3, <2>4, <2>6
<1> QED BY <1>8, <1>9, <1>10 DEF KeepsCore, saved, fields

\* Of whatever an admin puts together, field by field (validate_and_canonicalize).
LEMMA SomeFieldsAreFields == SomeFields \subseteq FormField
<1>1. ASSUME NEW n \in Strings, NEW y \in Strings, NEW o \in Seq(Strings)
      PROVE  Field(n, y, o) \in FormField
  <2>1. "label" \in Strings
    BY DEF Strings
  <2> QED BY <1>1, <2>1 DEF Field, FormField
<1>2. "x" \in Strings /\ "y" \in Strings /\ "purpose" \in Strings /\ "model" \in Strings
      /\ "team" \in Strings /\ "stage" \in Strings /\ "status" \in Strings
      /\ "Not A Name" \in Strings /\ "select" \in Strings /\ "text" \in Strings
      /\ "blank" \in Strings
  BY DEF Strings
<1>3. <<>> \in Seq(Strings) /\ <<"x">> \in Seq(Strings) /\ <<"x", "y">> \in Seq(Strings)
      /\ <<"x", "x">> \in Seq(Strings)
  <2>1. \A a, b \in Strings : <<a>> \in Seq(Strings) /\ <<a, b>> \in Seq(Strings)
    OBVIOUS
  <2>2. <<>> \in Seq(Strings)
    OBVIOUS
  <2> QED BY <1>2, <2>1, <2>2, Zenon
<1>4. \A f \in FormField : [f EXCEPT !.label = "blank"] \in FormField
  BY <1>2 DEF FormField
<1>5. \A f \in SomeFields :
        \/ \E n \in Strings, y \in Strings, o \in Seq(Strings) : f = Field(n, y, o)
        \/ f = [Field("team", "text", <<>>) EXCEPT !.label = "blank"]
  BY <1>2, <1>3, Zenon DEF SomeFields
<1>6. Field("team", "text", <<>>) \in FormField
  BY <1>1, <1>2, <1>3
<1>7. [Field("team", "text", <<>>) EXCEPT !.label = "blank"] \in FormField
  BY <1>4, <1>6, Zenon
<1>8. \A n \in Strings, y \in Strings, o \in Seq(Strings) : Field(n, y, o) \in FormField
  BY <1>1, Zenon
<1>9. ASSUME NEW f \in SomeFields PROVE f \in FormField
  <2>1. CASE \E n \in Strings, y \in Strings, o \in Seq(Strings) : f = Field(n, y, o)
    BY <1>8, <2>1
  <2>2. CASE f = [Field("team", "text", <<>>) EXCEPT !.label = "blank"]
    BY <1>7, <2>2
  <2> QED BY <1>5, <2>1, <2>2
<1> QED BY <1>9

\* The form of the run is one of sections and fields.
FormOk == form \in Seq(Section)

\* Of whatever an admin puts together, field by field (validate_and_canonicalize).
THEOREM EveryFormKeepsCore == MCSpec => []SavedFormKeepsCore
<1>1. MCInit => FormOk
  BY DEF MCInit, FormOk
<1>2. FormOk /\ [MCNext]_mcVars => FormOk'
  <2> SUFFICES ASSUME FormOk, [MCNext]_mcVars PROVE FormOk'
    OBVIOUS
  <2>1. form \in Seq(Section) /\ Len(form) \in Nat
    BY DEF FormOk
  <2>2. ASSUME NEW id \in {"s1", "s2"}, NEW title \in {"title", "blank"}, AddSection(id, title)
        PROVE  FormOk'
    <3>1. <<>> \in Seq(FormField)
      OBVIOUS
    <3>2. [id |-> id, title |-> title, fields |-> <<>>] \in Section
      BY <3>1 DEF Section, Strings
    <3> DEFINE new == [id |-> id, title |-> title, fields |-> <<>>]
    <3>3. form' = Append(form, new) /\ new \in Section
      BY <2>2, <3>2 DEF AddSection
    <3> HIDE DEF new
    <3> QED BY <2>1, <3>3 DEF FormOk
  <2>3. ASSUME NEW f \in SomeFields, AddField(f)
        PROVE  FormOk'
    <3> DEFINE last == form[Len(form)]
               more == [last EXCEPT !.fields = Append(@, f)]
    <3>1. f \in FormField
      BY SomeFieldsAreFields
    <3>2. Len(form) \in 1..Len(form)
      BY <2>1, <2>3 DEF AddField
    <3>3. last \in Section
      BY <2>1, <3>2, ElementOfSeq
    <3>4. more \in Section
      <4> HIDE DEF last
      <4>1. last.fields \in Seq(FormField)
        BY <3>3 DEF Section
      <4>2. Append(last.fields, f) \in Seq(FormField)
        BY <3>1, <4>1
      <4> QED BY <3>3, <4>2 DEF Section
    <3>5. form' = [form EXCEPT ![Len(form)] = more]
      BY <2>3 DEF AddField
    <3>6. form \in [1..Len(form) -> Section]
      BY <2>1
    <3>7. form' \in [1..Len(form) -> Section]
      <4> HIDE DEF more
      <4> QED BY <3>4, <3>5, <3>6
    <3> QED BY <2>1, <3>7 DEF FormOk
  <2>4. CASE UNCHANGED form
    BY <2>4 DEF FormOk
  <2> QED BY <2>2, <2>3, <2>4 DEF MCNext, mcVars, growing, AddStepResult, PrintToken, AddFlag
<1>3. FormOk => SavedFormKeepsCore
  BY SavedFormsKeepCore DEF FormOk, SavedFormKeepsCore
<1> QED BY <1>1, <1>2, <1>3, PTL DEF MCSpec

-----------------------------------------------------------------------------
(* The result object.  The height of a place in the text is the number of  *)
(* blocks that are open there.                                             *)

\* Of the tokens from one place to another, so many are among `tokens`.
LEMMA CountType ==
  ASSUME NEW text, NEW from \in Int, NEW to \in Int, NEW tokens
  PROVE  Count(text, from, to, tokens) \in Nat
<1>1. IsFiniteSet(from..to)
  BY FS_Interval
<1>2. IsFiniteSet({i \in from..to : text[i] \in tokens})
  BY <1>1, FS_Subset
<1> QED BY <1>2, FS_CardinalityType DEF Count

LEMMA CountSplits ==
  ASSUME NEW text, NEW from \in Int, NEW mid \in Int, NEW to \in Int, NEW tokens,
         from <= mid + 1, mid <= to
  PROVE  Count(text, from, to, tokens)
           = Count(text, from, mid, tokens) + Count(text, mid + 1, to, tokens)
<1> DEFINE A == {i \in from..mid : text[i] \in tokens}
           B == {i \in (mid + 1)..to : text[i] \in tokens}
<1>1. IsFiniteSet(A) /\ IsFiniteSet(B)
  <2>1. IsFiniteSet(from..mid) /\ IsFiniteSet((mid + 1)..to)
    BY FS_Interval
  <2>2. A \in SUBSET (from..mid) /\ B \in SUBSET ((mid + 1)..to)
    OBVIOUS
  <2> HIDE DEF A, B
  <2> QED BY <2>1, <2>2, FS_Subset
<1>2. A \cap B = {}
  OBVIOUS
<1>3. {i \in from..to : text[i] \in tokens} = A \cup B
  OBVIOUS
<1>4. Cardinality(A \cup B) = Cardinality(A) + Cardinality(B)
  <2> HIDE DEF A, B
  <2>1. Cardinality(A) \in Nat /\ Cardinality(B) \in Nat
    BY <1>1, FS_CardinalityType
  <2>2. Cardinality(A \cup B) = Cardinality(A) + Cardinality(B) - Cardinality(A \cap B)
    BY <1>1, FS_Union
  <2> QED BY <1>2, <2>1, <2>2, FS_EmptySet
<1> QED BY <1>3, <1>4 DEF Count

LEMMA CountNone ==
  ASSUME NEW text, NEW from \in Int, NEW to \in Int, NEW tokens
  PROVE  Count(text, from, to, tokens) = 0 <=> \A i \in from..to : text[i] \notin tokens
<1> DEFINE A == {i \in from..to : text[i] \in tokens}
<1>1. IsFiniteSet(A)
  BY FS_Interval, FS_Subset
<1>2. Cardinality(A) = 0 <=> A = {}
  BY <1>1, FS_EmptySet
<1> QED BY <1>2 DEF Count

LEMMA CountOne ==
  ASSUME NEW text, NEW at \in Int, NEW tokens
  PROVE  Count(text, at, at, tokens) = IF text[at] \in tokens THEN 1 ELSE 0
<1>1. at..at = {at}
  OBVIOUS
<1>2. CASE text[at] \in tokens
  <2>1. {i \in at..at : text[i] \in tokens} = {at}
    BY <1>1, <1>2
  <2> QED BY <1>2, <2>1, FS_Singleton DEF Count
<1>3. CASE text[at] \notin tokens
  BY <1>1, <1>3, CountNone
<1> QED BY <1>2, <1>3

Opened(text, p) == Count(text, 1, p, {"open"})
Closed(text, p) == Count(text, 1, p, Closing)

Height(text, p) == Opened(text, p) - Closed(text, p)

LEMMA HeightType ==
  ASSUME NEW text, NEW p \in Nat
  PROVE  Opened(text, p) \in Nat /\ Closed(text, p) \in Nat /\ Height(text, p) \in Int
BY CountType DEF Opened, Closed, Height

LEMMA HeightAtStart == ASSUME NEW text PROVE Height(text, 0) = 0
<1>1. Count(text, 1, 0, {"open"}) = 0 /\ Count(text, 1, 0, Closing) = 0
  BY CountNone
<1> QED BY <1>1 DEF Height, Opened, Closed

\* Token by token, the height changes by one at most.
LEMMA HeightStep ==
  ASSUME NEW text, NEW p \in Nat, p >= 1
  PROVE  Height(text, p) <= Height(text, p - 1) + 1
         /\ (text[p] = "close" => Height(text, p) = Height(text, p - 1) - 1)
<1>1. Opened(text, p) = Opened(text, p - 1) + Count(text, p, p, {"open"})
  BY CountSplits DEF Opened
<1>2. Closed(text, p) = Closed(text, p - 1) + Count(text, p, p, Closing)
  BY CountSplits DEF Closed
<1>3. Count(text, p, p, {"open"}) = (IF text[p] \in {"open"} THEN 1 ELSE 0)
      /\ Count(text, p, p, Closing) = (IF text[p] \in Closing THEN 1 ELSE 0)
  BY CountOne
<1>4. /\ Opened(text, p - 1) \in Nat /\ Closed(text, p - 1) \in Nat
  BY HeightType
<1> QED BY <1>1, <1>2, <1>3, <1>4 DEF Height, Closing

\* Between two places without a closing brace the height does not fall.
LEMMA HeightRises ==
  ASSUME NEW text, NEW p \in Nat, NEW q \in Nat, p <= q,
         \A i \in (p + 1)..q : text[i] # "close"
  PROVE  Height(text, p) <= Height(text, q)
<1>1. Opened(text, q) = Opened(text, p) + Count(text, p + 1, q, {"open"})
  BY CountSplits DEF Opened
<1>2. Closed(text, q) = Closed(text, p) + Count(text, p + 1, q, Closing)
  BY CountSplits DEF Closed
<1>3. Count(text, p + 1, q, Closing) = 0
  <2>1. \A i \in (p + 1)..q : text[i] \notin Closing
    BY DEF Closing
  <2> QED BY <2>1, CountNone
<1>4. Count(text, p + 1, q, {"open"}) \in Nat
  BY CountType
<1> QED BY <1>1, <1>2, <1>3, <1>4, HeightType DEF Height

\* Where tokens balance from i on, the height is what it was before i.
LEMMA BalancedFrom ==
  ASSUME NEW text, NEW end \in Nat, NEW i \in 1..end
  PROVE  Count(text, i, end, {"open"}) = Count(text, i, end, Closing)
           <=> Height(text, i - 1) = Height(text, end)
<1>1. Opened(text, end) = Opened(text, i - 1) + Count(text, i, end, {"open"})
  BY CountSplits DEF Opened
<1>2. Closed(text, end) = Closed(text, i - 1) + Count(text, i, end, Closing)
  BY CountSplits DEF Closed
<1>3. Count(text, i, end, {"open"}) \in Nat /\ Count(text, i, end, Closing) \in Nat
  BY CountType
<1>4. i - 1 \in Nat
  OBVIOUS
<1> QED BY <1>1, <1>2, <1>3, <1>4, HeightType DEF Height

\* A height above v at the end, and never v from a on, was always above v.
LEMMA StaysAbove ==
  ASSUME NEW text, NEW a \in Nat, NEW b \in Nat, NEW v \in Int,
         Height(text, b) > v, \A p \in a..b : Height(text, p) # v
  PROVE  \A p \in a..b : Height(text, p) > v
<1> SUFFICES ASSUME NEW p \in a..b, ~(Height(text, p) > v) PROVE FALSE
  OBVIOUS
<1> DEFINE S == {q \in p..b : Height(text, q) > v}
<1>1. p \in Nat /\ b \in S
  OBVIOUS
<1>2. PICK m \in S : \A q \in S : m <= q
  <2>1. S \in SUBSET Nat /\ S # {}
    BY <1>1
  <2> HIDE DEF S
  <2> QED BY <2>1, LeastNumber
<1>3. m \in p..b /\ Height(text, m) > v /\ m # p
  BY <1>2
<1>4. m - 1 \in p..b /\ m - 1 \notin S
  BY <1>2, <1>3
<1>5. Height(text, m - 1) \in Int /\ Height(text, m) \in Int
  <2>1. m - 1 \in Nat /\ m \in Nat
    BY <1>1, <1>3
  <2> QED BY <2>1, HeightType
<1>6. Height(text, m - 1) < v
  BY <1>4, <1>5
<1>7. Height(text, m) <= Height(text, m - 1) + 1
  BY <1>1, <1>3, HeightStep
<1> QED BY <1>3, <1>5, <1>6, <1>7

-----------------------------------------------------------------------------
(* A brace that closes a block of height v was opened at the last place of *)
(* height v before it.                                                     *)

LEMMA OpenOfIs ==
  ASSUME NEW text, NEW end \in Nat, NEW closing
  PROVE  LET open == {i \in 1..end :
                        Count(text, i, end, {"open"}) = Count(text, i, end, closing)}
         IN \/ open = {} /\ OpenOf(text, end, closing) = 0
            \/ /\ OpenOf(text, end, closing) \in open
               /\ \A j \in open : j <= OpenOf(text, end, closing)
<1> DEFINE open == {i \in 1..end :
                      Count(text, i, end, {"open"}) = Count(text, i, end, closing)}
<1>1. OpenOf(text, end, closing)
        = IF open = {} THEN 0 ELSE CHOOSE i \in open : \A j \in open : j <= i
  BY DEF OpenOf
<1>2. open \in SUBSET (0..end)
  OBVIOUS
<1> HIDE DEF open
<1>3. open # {} => \E i \in open : \A j \in open : j <= i
  BY <1>2, GreatestNumber
<1> QED BY <1>1, <1>3 DEF open

LEMMA ClosedBlock ==
  ASSUME NEW text, NEW end \in Nat, NEW start, start = OpenOf(text, end, Closing), start # 0
  PROVE  /\ start \in 1..end /\ Height(text, start - 1) = Height(text, end)
         /\ \A i \in (start + 1)..end : Height(text, i - 1) # Height(text, end)
<1> DEFINE open == {i \in 1..end :
                      Count(text, i, end, {"open"}) = Count(text, i, end, Closing)}
<1>1. start \in open /\ \A j \in open : j <= start
  BY OpenOfIs
<1>2. \A i \in 1..end : i \in open <=> Height(text, i - 1) = Height(text, end)
  BY BalancedFrom
<1>3. start \in 1..end
  BY <1>1
<1>4. ASSUME NEW i \in (start + 1)..end PROVE Height(text, i - 1) # Height(text, end)
  <2>1. i \in 1..end /\ ~(i <= start)
    BY <1>3
  <2> QED BY <1>1, <1>2, <2>1
<1> QED BY <1>1, <1>2, <1>3, <1>4

\* Inside the block it is higher.
LEMMA InsideTheBlock ==
  ASSUME NEW text, NEW end \in Nat, NEW start, start = OpenOf(text, end, Closing), start # 0,
         text[end] = "close"
  PROVE  \A p \in start..(end - 1) : Height(text, p) > Height(text, end)
<1>1. /\ start \in 1..end /\ \A i \in (start + 1)..end : Height(text, i - 1) # Height(text, end)
  BY ClosedBlock
<1>2. Height(text, end) \in Int /\ end - 1 \in Nat /\ end >= 1
  BY <1>1, HeightType
<1>3. Height(text, end - 1) > Height(text, end)
  <2>1. Height(text, end) = Height(text, end - 1) - 1
    BY <1>2, HeightStep
  <2>2. Height(text, end - 1) \in Int
    BY <1>2, HeightType
  <2> QED BY <1>2, <2>1, <2>2
<1>4. ASSUME NEW p \in start..(end - 1) PROVE Height(text, p) # Height(text, end)
  <2>1. p + 1 \in (start + 1)..end /\ (p + 1) - 1 = p
    BY <1>1
  <2> QED BY <1>1, <2>1
<1>5. start \in Nat
  BY <1>1
<1> QED BY <1>2, <1>3, <1>4, <1>5, StaysAbove

LEMMA LastCloseIs ==
  ASSUME NEW text, NEW i \in Nat, i >= 1
  PROVE  /\ LastClose(text, i) \in 0..(i - 1)
         /\ LastClose(text, i) # 0 => text[LastClose(text, i)] \in Apparent
         /\ \A k \in (LastClose(text, i) + 1)..(i - 1) : text[k] \notin Apparent
<1> DEFINE closing == {j \in 1..(i - 1) : text[j] \in Apparent}
<1>1. LastClose(text, i)
        = IF closing = {} THEN 0 ELSE CHOOSE j \in closing : \A k \in closing : k <= j
  BY DEF LastClose
<1>2. closing \in SUBSET (0..(i - 1)) /\ i - 1 \in Nat
  OBVIOUS
<1>3. CASE closing = {}
  BY <1>1, <1>3
<1>4. CASE closing # {}
  <2>1. \E j \in closing : \A k \in closing : k <= j
    <3> HIDE DEF closing
    <3> QED BY <1>2, <1>4, GreatestNumber
  <2>2. LastClose(text, i) \in closing /\ \A k \in closing : k <= LastClose(text, i)
    <3> HIDE DEF closing
    <3> QED BY <1>1, <1>4, <2>1
  <2>3. ASSUME NEW k \in (LastClose(text, i) + 1)..(i - 1) PROVE text[k] \notin Apparent
    <3>1. k \in 1..(i - 1) /\ ~(k <= LastClose(text, i))
      BY <2>2
    <3> QED BY <2>2, <3>1
  <2> QED BY <2>2, <2>3
<1> QED BY <1>3, <1>4

-----------------------------------------------------------------------------
(* The scan. *)

Start(text, end) == OpenOf(text, end, Apparent)

Settled(text, end) == end = 0 \/ Start(text, end) = 0 \/ IsObject(text, Start(text, end), end)

Outcome(text, end) ==
  IF end = 0 \/ Start(text, end) = 0 THEN NothingFound ELSE <<Start(text, end), end>>

LEMMA NextIsEarlier ==
  ASSUME NEW text, NEW end \in Nat, ~Settled(text, end)
  PROVE  /\ Start(text, end) \in 1..end
         /\ NextEnd(text, Start(text, end), end) \in 0..(end - 1)
         /\ NextEnd(text, Start(text, end), end) = LastClose(text, Start(text, end))
<1> DEFINE start == Start(text, end)
<1>1. start \in 1..end
  BY OpenOfIs DEF Settled, Start
<1>2. LastClose(text, start) \in 0..(start - 1)
  BY <1>1, LastCloseIs
<1> QED BY <1>1, <1>2 DEF NextEnd

LEMMA ScanUnfolds ==
  ASSUME NEW text \in Seq(Tokens)
  PROVE  \E scan :
           /\ \A end \in 0..Len(text) :
                scan[end] = IF Settled(text, end) THEN Outcome(text, end)
                            ELSE scan[LastClose(text, Start(text, end))]
           /\ ExtractJsonObject(text) =
                IF IsObject(text, 1, Len(text)) THEN <<1, Len(text)>>
                ELSE scan[LastClose(text, Len(text) + 1)]
<1> DEFINE n == Len(text)
           Body(f) == [end \in 0..n |->
             LET start == OpenOf(text, end, Apparent) IN
             IF end = 0 \/ start = 0 THEN NothingFound
             ELSE IF IsObject(text, start, end) THEN <<start, end>>
             ELSE f[NextEnd(text, start, end)]]
           stop == {end \in 0..n : Settled(text, end)}
           val == [end \in 0..n |-> Outcome(text, end)]
           next == [end \in 0..n |-> NextEnd(text, Start(text, end), end)]
           scan == CHOOSE f : f = Body(f)
<1>1. n \in Nat
  OBVIOUS
<1>2. \E f : Descends(f, n, val, next, stop)
  <2>1. 0 \in stop
    BY <1>1 DEF Settled
  <2>2. ASSUME NEW e \in 1..n, e \notin stop PROVE next[e] \in 0..(e - 1)
    <3>1. e \in Nat /\ e \in 0..n /\ ~Settled(text, e)
      BY <1>1, <2>2
    <3> QED BY <3>1, NextIsEarlier
  <2> HIDE DEF n, stop, val, next
  <2>3. \A e \in 1..n : e \notin stop => next[e] \in 0..(e - 1)
    BY <2>2, Zenon
  <2> QED BY <1>1, <2>1, <2>3, DescentExists, Zenon
<1>3. ASSUME NEW f, NEW e \in 0..n
      PROVE  (IF e \in stop THEN val[e] ELSE f[next[e]]) = Body(f)[e]
  BY DEF Settled, Outcome, Start
<1>4. ASSUME NEW f
      PROVE  [e \in 0..n |-> IF e \in stop THEN val[e] ELSE f[next[e]]] = Body(f)
  <2> HIDE DEF stop, val, next
  <2>1. Body(f) = [e \in 0..n |-> Body(f)[e]]
    OBVIOUS
  <2> HIDE DEF Body
  <2> QED BY <1>3, <2>1
<1>5. \E f : f = Body(f)
  <2> HIDE DEF Body, stop, val, next, n
  <2>1. PICK f : f = [e \in 0..n |-> IF e \in stop THEN val[e] ELSE f[next[e]]]
    BY <1>2 DEF Descends
  <2> QED BY <1>4, <2>1
<1>6. scan = Body(scan)
  <2> HIDE DEF Body
  <2> QED BY <1>5
<1>7. ExtractJsonObject(text) = IF IsObject(text, 1, n) THEN <<1, n>>
                                ELSE scan[LastClose(text, n + 1)]
  BY DEF ExtractJsonObject
<1>8. ASSUME NEW end \in 0..n
      PROVE  scan[end] = IF Settled(text, end) THEN Outcome(text, end)
                         ELSE scan[LastClose(text, Start(text, end))]
  <2> HIDE DEF scan
  <2>1. scan[end] = IF Settled(text, end) THEN Outcome(text, end)
                    ELSE scan[NextEnd(text, Start(text, end), end)]
    BY <1>6 DEF Settled, Outcome, Start
  <2>2. end \in Nat
    BY <1>1
  <2> QED BY <2>1, <2>2, NextIsEarlier
<1> HIDE DEF scan
<1> QED BY <1>7, <1>8

-----------------------------------------------------------------------------
(* Texts whose braces have their partners. *)

\* The scan has found all objects behind `end`, which is at the top level.
Reached(text, end) ==
  /\ end \in 0..Len(text) /\ Height(text, end) = 0
  /\ end # 0 => text[end] = "close"
  /\ \A b \in TopLevelObjects(text) : b[2] <= end

IsLast(text, found) ==
  IF TopLevelObjects(text) = {} THEN found = NothingFound
  ELSE found \in TopLevelObjects(text) /\ \A b \in TopLevelObjects(text) : b[2] <= found[2]

Partnered(text) == Balanced(text) /\ Count(text, 1, Len(text), {"s"}) = 0

LEMMA TopLevelIs ==
  ASSUME NEW text \in Seq(Tokens), NEW from, NEW to
  PROVE  <<from, to>> \in TopLevelObjects(text)
           <=> /\ from \in 1..Len(text) /\ to \in 1..Len(text)
               /\ Height(text, from - 1) = 0 /\ IsObject(text, from, to)
<1>1. <<from, to>> \in TopLevelObjects(text)
        <=> /\ from \in 1..Len(text) /\ to \in 1..Len(text)
            /\ Opened(text, from - 1) = Closed(text, from - 1) /\ IsObject(text, from, to)
  BY DEF TopLevelObjects, Opened, Closed
<1>2. ASSUME from \in 1..Len(text)
      PROVE  Opened(text, from - 1) = Closed(text, from - 1) <=> Height(text, from - 1) = 0
  <2>1. from - 1 \in Nat
    BY <1>2
  <2> QED BY <2>1, HeightType DEF Height
<1> QED BY <1>1, <1>2

\* An object at the top level is what the brace at its end closes.
LEMMA TopLevelFacts ==
  ASSUME NEW text \in Seq(Tokens), NEW b \in TopLevelObjects(text)
  PROVE  /\ b = <<b[1], b[2]>> /\ b[1] \in 1..b[2] /\ b[2] \in 1..Len(text)
         /\ text[b[2]] = "close" /\ b[1] = OpenOf(text, b[2], Closing)
         /\ Height(text, b[2]) = 0 /\ IsObject(text, b[1], b[2])
<1>1. b = <<b[1], b[2]>> /\ b[1] \in 1..Len(text) /\ b[2] \in 1..Len(text)
  BY DEF TopLevelObjects
<1>2. Height(text, b[1] - 1) = 0 /\ IsObject(text, b[1], b[2])
  BY <1>1, TopLevelIs
<1>3. /\ b[1] \in 1..b[2] /\ text[b[2]] = "close" /\ b[1] = OpenOf(text, b[2], Closing)
  BY <1>2 DEF IsObject
<1>4. Height(text, b[1] - 1) = Height(text, b[2])
  BY <1>1, <1>3, ClosedBlock
<1> QED BY <1>1, <1>2, <1>3, <1>4

LEMMA PlainHeights ==
  ASSUME NEW text \in Seq(Tokens), Partnered(text)
  PROVE  /\ \A p \in 0..Len(text) : Height(text, p) \in Int /\ Height(text, p) >= 0
         /\ Height(text, 0) = 0 /\ Height(text, Len(text)) = 0
<1>1. /\ DOMAIN text = 1..Len(text) /\ Len(text) \in Nat
      /\ \A i \in DOMAIN text : Closed(text, i) <= Opened(text, i)
      /\ Closed(text, Len(text)) = Opened(text, Len(text))
  BY DEF Partnered, Balanced, Opened, Closed
<1>2. Height(text, 0) = 0
  BY HeightAtStart
<1>3. ASSUME NEW p \in 0..Len(text) PROVE Height(text, p) \in Int /\ Height(text, p) >= 0
  <2>1. p \in Nat
    BY <1>1
  <2>2. CASE p = 0
    BY <1>2, <2>2
  <2>3. CASE p # 0
    <3>1. Closed(text, p) <= Opened(text, p)
      BY <1>1, <2>3
    <3> QED BY <2>1, <3>1, HeightType DEF Height
  <2> QED BY <2>2, <2>3
<1> QED BY <1>1, <1>2, <1>3, HeightType DEF Height

LEMMA PlainScan ==
  ASSUME NEW text \in Seq(Tokens), Partnered(text)
  PROVE  /\ \A i \in 1..Len(text) : text[i] \in Apparent <=> text[i] = "close"
         /\ \A end \in 0..Len(text) : Start(text, end) = OpenOf(text, end, Closing)
<1>1. Len(text) \in Nat
  OBVIOUS
<1>2. \A i \in 1..Len(text) : text[i] # "s"
  BY <1>1, CountNone DEF Partnered
<1>3. \A i \in 1..Len(text) : text[i] \in Apparent <=> text[i] \in Closing
  BY <1>2 DEF Apparent, Closing
<1>4. ASSUME NEW end \in 0..Len(text)
      PROVE  OpenOf(text, end, Apparent) = OpenOf(text, end, Closing)
  <2>1. ASSUME NEW i \in 1..end PROVE Count(text, i, end, Apparent) = Count(text, i, end, Closing)
    <3>1. \A k \in i..end : k \in 1..Len(text)
      BY <1>1, <2>1
    <3>2. {k \in i..end : text[k] \in Apparent} = {k \in i..end : text[k] \in Closing}
      BY <1>3, <3>1
    <3> QED BY <3>2 DEF Count
  <2> DEFINE Open(closing) ==
               {i \in 1..end : Count(text, i, end, {"open"}) = Count(text, i, end, closing)}
  <2>2. Open(Apparent) = Open(Closing)
    BY <2>1
  <2>3. \A closing : OpenOf(text, end, closing) =
          IF Open(closing) = {} THEN 0
          ELSE CHOOSE i \in Open(closing) : \A j \in Open(closing) : j <= i
    BY DEF OpenOf
  <2> HIDE DEF Open
  <2> QED BY <2>2, <2>3
<1> QED BY <1>3, <1>4 DEF Start, Closing

\* The brace before a place at the top level is at the top level.
LEMMA ReachedNext ==
  ASSUME NEW text \in Seq(Tokens), Partnered(text), NEW i \in 1..(Len(text) + 1),
         Height(text, i - 1) = 0, \A b \in TopLevelObjects(text) : b[2] < i
  PROVE  Reached(text, LastClose(text, i))
<1> DEFINE c == LastClose(text, i)
<1>1. i \in Nat /\ i >= 1 /\ Len(text) \in Nat
  OBVIOUS
<1>2. /\ c \in 0..(i - 1)
      /\ c # 0 => text[c] \in Apparent
      /\ \A k \in (c + 1)..(i - 1) : text[k] \notin Apparent
  BY <1>1, LastCloseIs
<1> HIDE DEF c
<1>3. \A k \in (c + 1)..(i - 1) : text[k] # "close"
  BY <1>2 DEF Apparent
<1>4. Height(text, c) = 0
  <2>1. c \in Nat /\ i - 1 \in Nat /\ c <= i - 1 /\ c \in 0..Len(text)
    BY <1>1, <1>2
  <2>2. Height(text, c) <= Height(text, i - 1)
    BY <1>3, <2>1, HeightRises
  <2>3. Height(text, c) \in Int /\ Height(text, c) >= 0
    BY <2>1, PlainHeights
  <2> QED BY <2>2, <2>3
<1>5. c # 0 => text[c] = "close"
  BY <1>1, <1>2, PlainScan
<1>6. ASSUME NEW b \in TopLevelObjects(text) PROVE b[2] <= c
  <2>1. b[2] \in 1..Len(text) /\ text[b[2]] = "close" /\ b[2] < i
    BY TopLevelFacts
  <2>2. b[2] \notin (c + 1)..(i - 1)
    BY <1>3, <2>1
  <2> QED BY <1>1, <1>2, <2>1, <2>2
<1>7. c \in 0..Len(text)
  BY <1>1, <1>2
<1> QED BY <1>4, <1>5, <1>6, <1>7 DEF Reached, c

LEMMA ReachedStart ==
  ASSUME NEW text \in Seq(Tokens), Partnered(text), NEW end, Reached(text, end), end # 0
  PROVE  /\ end \in 1..Len(text) /\ Start(text, end) \in 1..end
         /\ Start(text, end) = OpenOf(text, end, Closing)
         /\ Height(text, Start(text, end) - 1) = 0
         /\ \A p \in Start(text, end)..(end - 1) : Height(text, p) > 0
<1>1. /\ end \in 1..Len(text) /\ end \in Nat /\ end \in 0..Len(text) /\ 1 \in 1..end
      /\ Height(text, end) = 0 /\ text[end] = "close"
  BY DEF Reached
<1>2. Start(text, end) = OpenOf(text, end, Closing)
  BY <1>1, PlainScan
<1>3. Count(text, 1, end, {"open"}) = Count(text, 1, end, Closing)
  <2>1. Height(text, 1 - 1) = Height(text, end)
    BY <1>1, HeightAtStart
  <2> QED BY <1>1, <2>1, BalancedFrom
<1>4. OpenOf(text, end, Closing) # 0
  BY <1>1, <1>3, OpenOfIs
<1> QED BY <1>1, <1>2, <1>4, ClosedBlock, InsideTheBlock

LEMMA ReachedGoesOn ==
  ASSUME NEW text \in Seq(Tokens), Partnered(text), NEW end, Reached(text, end), ~Settled(text, end)
  PROVE  LastClose(text, Start(text, end)) < end
         /\ Reached(text, LastClose(text, Start(text, end)))
<1> DEFINE start == Start(text, end)
<1>1. end # 0 /\ ~IsObject(text, start, end)
  BY DEF Settled
<1>2. /\ end \in 1..Len(text) /\ start \in 1..end /\ start = OpenOf(text, end, Closing)
      /\ Height(text, start - 1) = 0 /\ \A p \in start..(end - 1) : Height(text, p) > 0
  BY <1>1, ReachedStart
<1> HIDE DEF start
<1>3. ASSUME NEW b \in TopLevelObjects(text) PROVE b[2] < start
  <2>1. /\ b[2] \in 1..Len(text) /\ b[1] = OpenOf(text, b[2], Closing)
        /\ Height(text, b[2]) = 0 /\ IsObject(text, b[1], b[2])
    BY TopLevelFacts
  <2>2. b[2] <= end
    BY DEF Reached
  <2>3. b[2] # end
    BY <1>1, <1>2, <2>1
  <2>4. b[2] \notin start..(end - 1)
    BY <1>2, <2>1
  <2> QED BY <1>2, <2>1, <2>2, <2>3, <2>4
<1>4. Reached(text, LastClose(text, start))
  BY <1>2, <1>3, ReachedNext
<1>5. LastClose(text, start) \in 0..(start - 1)
  BY <1>2, LastCloseIs
<1> QED BY <1>2, <1>4, <1>5 DEF start

LEMMA ReachedSettles ==
  ASSUME NEW text \in Seq(Tokens), Partnered(text), NEW end, Reached(text, end), Settled(text, end)
  PROVE  IsLast(text, Outcome(text, end))
<1>1. CASE end = 0
  <2>1. ASSUME NEW b \in TopLevelObjects(text) PROVE FALSE
    <3>1. b[2] <= 0 /\ b[2] \in 1..Len(text)
      BY <1>1, TopLevelFacts DEF Reached
    <3> QED BY <3>1
  <2> QED BY <1>1, <2>1 DEF IsLast, Outcome
<1>2. CASE end # 0
  <2> DEFINE start == Start(text, end)
  <2>1. /\ end \in 1..Len(text) /\ start \in 1..end /\ Height(text, start - 1) = 0
    BY <1>2, ReachedStart
  <2>2. IsObject(text, start, end)
    BY <1>2, <2>1 DEF Settled
  <2>3. Outcome(text, end) = <<start, end>>
    BY <1>2, <2>1 DEF Outcome
  <2>4. <<start, end>> \in TopLevelObjects(text)
    BY <2>1, <2>2, TopLevelIs
  <2> HIDE DEF start
  <2>5. \A b \in TopLevelObjects(text) : b[2] <= <<start, end>>[2]
    BY DEF Reached
  <2> QED BY <2>3, <2>4, <2>5 DEF IsLast
<1> QED BY <1>1, <1>2

\* Whatever a container prints, the scan finds its last object.
THEOREM LastObjectIsFound ==
  ASSUME NEW text \in Seq(Tokens)
  PROVE  FindsLastObject(text)
<1> DEFINE n == Len(text)
           objects == TopLevelObjects(text)
           found == ExtractJsonObject(text)
<1>1. PICK scan :
        /\ \A end \in 0..n :
             scan[end] = IF Settled(text, end) THEN Outcome(text, end)
                         ELSE scan[LastClose(text, Start(text, end))]
        /\ found = IF IsObject(text, 1, n) THEN <<1, n>> ELSE scan[LastClose(text, n + 1)]
  BY ScanUnfolds
<1>2. <<1, n>> \in objects => found = <<1, n>>
  BY <1>1, TopLevelIs
<1>3. ASSUME Partnered(text), IsObject(text, 1, n) PROVE IsLast(text, found)
  <2>1. n \in 1..n /\ 1 \in 1..n
    BY <1>3 DEF IsObject
  <2>2. Height(text, 1 - 1) = 0
    BY HeightAtStart
  <2>3. <<1, n>> \in objects
    BY <1>3, <2>1, <2>2, TopLevelIs
  <2>4. \A b \in objects : b[2] <= n
    BY TopLevelFacts
  <2> QED BY <1>2, <2>3, <2>4 DEF IsLast
<1>4. ASSUME Partnered(text), NEW end \in Nat, Reached(text, end) PROVE IsLast(text, scan[end])
  <2> DEFINE S == {e \in Nat : Reached(text, e) /\ ~IsLast(text, scan[e])}
  <2> SUFFICES ASSUME S # {} PROVE FALSE
    BY <1>4
  <2>1. PICK e \in S : \A o \in S : e <= o
    <3>1. S \in SUBSET Nat
      OBVIOUS
    <3> HIDE DEF S
    <3> QED BY <3>1, LeastNumber
  <2>2. e \in Nat /\ e \in 0..n /\ Reached(text, e) /\ ~IsLast(text, scan[e])
    BY <2>1 DEF Reached
  <2>3. ~Settled(text, e)
    BY <1>1, <1>4, <2>2, ReachedSettles
  <2> DEFINE next == LastClose(text, Start(text, e))
  <2>4. next < e /\ Reached(text, next) /\ scan[e] = scan[next]
    BY <1>1, <1>4, <2>2, <2>3, ReachedGoesOn
  <2>5. next \in Nat
    BY <2>4 DEF Reached
  <2> HIDE DEF next
  <2>6. next \in S
    BY <2>2, <2>4, <2>5
  <2> QED BY <2>1, <2>2, <2>4, <2>5, <2>6
<1>5. ASSUME Partnered(text), ~IsObject(text, 1, n) PROVE IsLast(text, found)
  <2>1. n \in Nat /\ n + 1 \in 1..(n + 1) /\ (n + 1) - 1 = n
    OBVIOUS
  <2>2. Height(text, (n + 1) - 1) = 0
    BY <1>5, <2>1, PlainHeights
  <2>3. \A b \in objects : b[2] < n + 1
    BY <2>1, TopLevelFacts
  <2>4. Reached(text, LastClose(text, n + 1))
    BY <1>5, <2>1, <2>2, <2>3, ReachedNext
  <2>5. LastClose(text, n + 1) \in Nat
    BY <2>4 DEF Reached
  <2> QED BY <1>1, <1>4, <1>5, <2>4, <2>5
<1> QED BY <1>2, <1>3, <1>5 DEF FindsLastObject, IsLast, Partnered

\* And so at every moment of its printing (results.py extract_json_object).
THEOREM PrintedObjectIsFound == MCSpec => []LastObjectFound
<1> DEFINE Ok == printed \in Seq(Tokens)
<1>1. MCInit => Ok
  BY DEF MCInit
<1>2. Ok /\ [MCNext]_mcVars => Ok'
  BY DEF MCNext, mcVars, growing, AddStepResult, PrintToken, AddSection, AddField, AddFlag
<1>3. Ok => LastObjectFound
  BY LastObjectIsFound DEF LastObjectFound
<1> QED BY <1>1, <1>2, <1>3, PTL DEF MCSpec
=============================================================================
