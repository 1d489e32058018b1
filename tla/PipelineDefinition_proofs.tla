---------------------- MODULE PipelineDefinition_proofs ----------------------
(***************************************************************************)
(* For every set of steps and every number of them: the parser accepts a   *)
(* definition exactly if its dependencies are known and acyclic, in        *)
(* whatever order Kahn's algorithm takes the steps; an executor refuses    *)
(* what was accepted only for what the parser does not look at; and        *)
(* topo_order puts every step after what it depends on.                    *)
(***************************************************************************)
EXTENDS PipelineDefinition, FiniteSetTheorems, TLAPS

Types ==
  /\ list \in Seq(STRING) /\ IsFiniteSet(Named)
  /\ order \in Seq(STRING)
  /\ visit \in Nat
  /\ default \in FailurePolicy

\* A normalised step has what its executor asks for and the parser can give.
Runnable(s) ==
  /\ \A site \in Sites : ExecutorRefuses(s, site) <=> LeftToTheRun(s, site)
  /\ s.timeout \in TimeoutBounds
  /\ s.policy \in FailurePolicy

StepsRunnable == \A n \in Named : Runnable(step[n])

DependenciesKnown ==
  phase \in {"kahn"} \cup Checked => \A n \in Named : Deps(n) \subseteq Named

\* Kahn's worklist: what is left of each step's dependencies, the steps that
\* have none left, and no knot that a resolved step is part of.
Worklist ==
  /\ phase \in {"header", "steps", "references"} => resolved = {}
  /\ phase = "kahn" =>
       /\ resolved \subseteq Named
       /\ \A n \in Named : work[n] = Deps(n) \ resolved
       /\ ready = {n \in Named \ resolved : Deps(n) \subseteq resolved}
       /\ \A U \in SUBSET Named : Knot(U) => U \cap resolved = {}

OrderedSoFar ==
  /\ phase \notin {"pass", "ordered"} => order = <<>>
  /\ \A i \in DOMAIN order :
       /\ Deps(order[i]) \subseteq {order[j] : j \in 1..(i - 1)}
       /\ \A j \in DOMAIN order : order[i] = order[j] => i = j

\* A pass that has placed nothing has found nothing to place.
NothingMissed ==
  phase = "pass" /\ ~progressed =>
    \A i \in 1..Len(list) : i < visit /\ list[i] \in Remaining => ~Satisfied(list[i])

IInv ==
  /\ Types
  /\ StepsRunnable
  /\ DependenciesKnown
  /\ Worklist
  /\ AcceptedIffAcyclic
  /\ OrderedSoFar
  /\ NothingMissed

-----------------------------------------------------------------------------
LEMMA InitIInv == Init => IInv
<1> SUFFICES ASSUME Init PROVE IInv OBVIOUS
<1>1. Named = {}
  BY DEF Init, Named
<1>2. Types
  BY <1>1, FS_EmptySet DEF Init, Types, FailurePolicy
<1>3. StepsRunnable /\ DependenciesKnown /\ Worklist
  BY <1>1 DEF Init, StepsRunnable, DependenciesKnown, Worklist, Checked
<1>4. AcceptedIffAcyclic
  BY DEF Init, AcceptedIffAcyclic, Checked
<1>5. OrderedSoFar /\ NothingMissed
  BY DEF Init, OrderedSoFar, NothingMissed
<1> QED BY <1>2, <1>3, <1>4, <1>5 DEF IInv

\* What a step does not write keeps its part of the invariant.
LEMMA ReadingKept ==
  ASSUME IInv, UNCHANGED reading, phase' \in {"kahn"} \cup Checked => phase \in {"kahn"} \cup Checked
  PROVE  /\ Named' = Named
         /\ \A n : Deps(n)' = Deps(n)
         /\ list' \in Seq(STRING) /\ IsFiniteSet(Named)' /\ default' \in FailurePolicy
         /\ StepsRunnable' /\ DependenciesKnown'
<1>1. Named' = Named /\ \A n : Deps(n)' = Deps(n)
  BY DEF reading, Named, Deps
<1>2. list' \in Seq(STRING) /\ IsFiniteSet(Named)' /\ default' \in FailurePolicy
  BY <1>1 DEF IInv, Types, reading
<1>3. StepsRunnable'
  BY <1>1 DEF IInv, StepsRunnable, reading
<1>4. DependenciesKnown'
  BY <1>1 DEF IInv, DependenciesKnown
<1> QED BY <1>1, <1>2, <1>3, <1>4

LEMMA KnotKept ==
  ASSUME Named' = Named, \A n : Deps(n)' = Deps(n)
  PROVE  \A U : Knot(U)' <=> Knot(U)
BY DEF Knot

LEMMA OrderingKept ==
  ASSUME IInv, UNCHANGED ordering, phase \notin {"pass", "ordered"}, phase' \notin {"pass", "ordered"}
  PROVE  order' \in Seq(STRING) /\ visit' \in Nat /\ OrderedSoFar' /\ NothingMissed'
<1>1. order = <<>> /\ order' = <<>>
  BY DEF IInv, OrderedSoFar, ordering
<1>2. order' \in Seq(STRING) /\ visit' \in Nat
  BY DEF IInv, Types, ordering
<1>3. OrderedSoFar'
  BY <1>1 DEF OrderedSoFar
<1>4. NothingMissed'
  BY DEF NothingMissed
<1> QED BY <1>2, <1>3, <1>4

-----------------------------------------------------------------------------
(* Reading the document. *)

LEMMA ReadHeaderIInv == ASSUME IInv, NEW h \in Headers, ReadHeader(h) PROVE IInv'
<1> USE DEF ReadHeader
<1>1. phase = "header" /\ phase' \in {"steps", "refused"} /\ UNCHANGED <<list, step, kahn, ordering>>
  OBVIOUS
<1>2. order' \in Seq(STRING) /\ visit' \in Nat /\ OrderedSoFar' /\ NothingMissed'
  BY <1>1, OrderingKept
<1>3. Named' = Named
  BY <1>1 DEF Named
<1>4. default' \in FailurePolicy
  BY DEF IInv, Types
<1>5. Types'
  BY <1>1, <1>2, <1>3, <1>4 DEF IInv, Types
<1>6. StepsRunnable'
  BY <1>1, <1>3 DEF IInv, StepsRunnable
<1>7. DependenciesKnown' /\ AcceptedIffAcyclic'
  BY <1>1 DEF DependenciesKnown, AcceptedIffAcyclic, Checked
<1>8. Worklist'
  BY <1>1 DEF IInv, Worklist, kahn
<1> QED BY <1>2, <1>5, <1>6, <1>7, <1>8 DEF IInv

\* What the parser accepts of a step is what its executor asks for.
LEMMA NormalizedIsRunnable ==
  ASSUME NEW s \in RawSteps, StepAccepted(s)
  PROVE  Runnable(NormalizeStep(s))
<1> DEFINE t == NormalizeStep(s)
<1>1. s \in RawStep
  BY DefinitionAssumption
<1>2. /\ t.type = s.type /\ t.image = s.image /\ t.script = s.script
      /\ t.interpreter = s.interpreter /\ t.scanner = s.scanner /\ t.options = s.options
      /\ t.timeout = NormalizeTimeout(s.timeout) /\ t.policy = PolicyOr(s.policy, default)
  BY <1>1 DEF NormalizeStep, RawStep
<1>3. ASSUME NEW site \in Sites PROVE ExecutorRefuses(t, site) <=> LeftToTheRun(t, site)
  <2>1. /\ t.type \in JobTypes => t.image = "text"
        /\ t.type \in ScriptTypes => t.script = "text" /\ t.interpreter \in {"absent", "bash", "python"}
    BY <1>2 DEF StepAccepted, ConfigAccepted
  <2>2. site = [inlineScripts |-> TRUE, runnerImage |-> TRUE] <=> site.inlineScripts /\ site.runnerImage
    BY DEF Sites
  <2> HIDE DEF t
  <2> QED BY <2>1, <2>2 DEF ExecutorRefuses, LeftToTheRun
<1>4. t.timeout \in TimeoutBounds /\ t.policy \in FailurePolicy
  BY <1>2 DEF StepAccepted
<1> QED BY <1>3, <1>4 DEF Runnable

LEMMA ReadStepIInv == ASSUME IInv, NEW s \in RawSteps, ReadStep(s) PROVE IInv'
<1>1. phase = "steps" /\ phase' \in {"steps", "refused"} /\ UNCHANGED <<default, kahn, ordering>>
  BY DEF ReadStep
<1>2. order' \in Seq(STRING) /\ visit' \in Nat /\ OrderedSoFar' /\ NothingMissed'
  BY <1>1, OrderingKept
<1>3. DependenciesKnown' /\ AcceptedIffAcyclic'
  BY <1>1 DEF DependenciesKnown, AcceptedIffAcyclic, Checked
<1>4. Worklist'
  BY <1>1 DEF IInv, Worklist, kahn
<1>5. CASE StepAccepted(s) /\ s.name \notin Named
  <2>1. /\ list' = Append(list, s.name)
        /\ step' = [n \in Named \cup {s.name} |->
                      IF n = s.name THEN NormalizeStep(s) ELSE step[n]]
    BY <1>5 DEF ReadStep
  <2>2. s.name \in STRING /\ list \in Seq(STRING)
    BY <1>5 DEF StepAccepted, SlugNames, IInv, Types
  <2>3. Named' = Named \cup {s.name}
    BY <2>1, <2>2 DEF Named
  <2>4. IsFiniteSet(Named)'
    BY <2>3, FS_AddElement DEF IInv, Types
  <2>5. Types'
    BY <1>1, <1>2, <2>1, <2>2, <2>4 DEF IInv, Types
  <2>6. StepsRunnable'
    <3> SUFFICES ASSUME NEW n \in Named' PROVE Runnable(step'[n])
      BY DEF StepsRunnable, Runnable, ExecutorRefuses, LeftToTheRun
    <3>1. CASE n = s.name
      BY <1>5, <2>1, <2>3, <3>1, NormalizedIsRunnable
    <3>2. CASE n # s.name
      BY <2>1, <2>3, <3>2 DEF IInv, StepsRunnable
    <3> QED BY <3>1, <3>2
  <2> QED BY <1>2, <1>3, <1>4, <2>5, <2>6 DEF IInv
<1>6. CASE ~(StepAccepted(s) /\ s.name \notin Named)
  <2>1. UNCHANGED reading
    BY <1>1, <1>6 DEF ReadStep, reading
  <2>2. Types' /\ StepsRunnable'
    BY <1>1, <1>2, <2>1, ReadingKept DEF Types, Checked
  <2> QED BY <1>2, <1>3, <1>4, <2>2 DEF IInv
<1> QED BY <1>5, <1>6

LEMMA EndStepsIInv == ASSUME IInv, EndSteps PROVE IInv'
<1>1. phase = "steps" /\ phase' \in {"refused", "references"} /\ UNCHANGED <<reading, kahn, ordering>>
  BY DEF EndSteps, Goto
<1>2. order' \in Seq(STRING) /\ visit' \in Nat /\ OrderedSoFar' /\ NothingMissed'
  BY <1>1, OrderingKept
<1>3. Types' /\ StepsRunnable'
  BY <1>1, <1>2, ReadingKept DEF Types, Checked
<1>4. DependenciesKnown' /\ AcceptedIffAcyclic'
  BY <1>1 DEF DependenciesKnown, AcceptedIffAcyclic, Checked
<1>5. Worklist'
  BY <1>1 DEF IInv, Worklist, kahn
<1> QED BY <1>2, <1>3, <1>4, <1>5 DEF IInv

-----------------------------------------------------------------------------
(* Kahn's algorithm. *)

LEMMA CheckReferencesIInv == ASSUME IInv, CheckReferences PROVE IInv'
<1>1. phase = "references" /\ phase' \in {"refused", "kahn"} /\ UNCHANGED <<reading, resolved, ordering>>
  BY DEF CheckReferences
<1>2. order' \in Seq(STRING) /\ visit' \in Nat /\ OrderedSoFar' /\ NothingMissed'
  BY <1>1, OrderingKept
<1>3. Named' = Named /\ \A n : Deps(n)' = Deps(n)
  BY <1>1 DEF reading, Named, Deps
<1>4. Types' /\ StepsRunnable'
  BY <1>1, <1>2, <1>3 DEF IInv, Types, StepsRunnable, reading
<1>5. AcceptedIffAcyclic'
  BY <1>1 DEF AcceptedIffAcyclic, Checked
<1>6. resolved = {} /\ resolved' = {}
  BY <1>1 DEF IInv, Worklist
<1>7. CASE phase' = "refused"
  <2>1. DependenciesKnown' /\ Worklist'
    BY <1>7 DEF DependenciesKnown, Worklist, Checked
  <2> QED BY <1>2, <1>4, <1>5, <2>1 DEF IInv
<1>8. CASE phase' = "kahn"
  <2>1. /\ \A n \in Named : Deps(n) \subseteq Named \ {n}
        /\ work' = [n \in Named |-> Deps(n)]
        /\ ready' = {n \in Named : Deps(n) = {}}
    BY <1>8 DEF CheckReferences
  <2>2. DependenciesKnown'
    BY <1>3, <2>1 DEF DependenciesKnown
  <2>3. \A n \in Named : work'[n] = Deps(n) \ resolved'
    BY <1>6, <2>1
  <2>4. ready' = {n \in Named \ resolved' : Deps(n) \subseteq resolved'}
    BY <1>6, <2>1
  <2>5. Worklist'
    BY <1>3, <1>6, <1>8, <2>3, <2>4 DEF Worklist
  <2> QED BY <1>2, <1>4, <1>5, <2>2, <2>5 DEF IInv
<1> QED BY <1>1, <1>7, <1>8

\* A knot cannot hold a step whose dependencies are resolved: one of them would
\* be in the knot, and resolved.
LEMMA ResolveIInv == ASSUME IInv, NEW n \in ready, Resolve(n) PROVE IInv'
<1>1. phase = "kahn" /\ phase' = "kahn" /\ UNCHANGED <<reading, ordering>>
  BY DEF Resolve
<1>2. order' \in Seq(STRING) /\ visit' \in Nat /\ OrderedSoFar' /\ NothingMissed'
  BY <1>1, OrderingKept
<1>3. Named' = Named /\ \A o : Deps(o)' = Deps(o)
  BY <1>1 DEF reading, Named, Deps
<1>4. Types' /\ StepsRunnable'
  BY <1>1, <1>2, <1>3 DEF IInv, Types, StepsRunnable, reading
<1>5. AcceptedIffAcyclic'
  BY <1>1 DEF AcceptedIffAcyclic, Checked
<1>6. DependenciesKnown'
  BY <1>1, <1>3 DEF IInv, DependenciesKnown
<1>7. /\ resolved \subseteq Named
      /\ \A o \in Named : work[o] = Deps(o) \ resolved
      /\ ready = {o \in Named \ resolved : Deps(o) \subseteq resolved}
      /\ \A U \in SUBSET Named : Knot(U) => U \cap resolved = {}
  BY <1>1 DEF IInv, Worklist
<1>8. n \in Named \ resolved /\ Deps(n) \subseteq resolved
  BY <1>7
<1>9. /\ resolved' = resolved \cup {n}
      /\ work' = [o \in Named |-> work[o] \ {n}]
      /\ ready' = (ready \ {n}) \cup
           {o \in Named \ (resolved' \cup ready) : n \in work[o] /\ work'[o] = {}}
  BY DEF Resolve
<1>10. \A o \in Named : work'[o] = Deps(o) \ resolved'
  BY <1>7, <1>9
<1>11. ready' = {o \in Named \ resolved' : Deps(o) \subseteq resolved'}
  <2>1. ASSUME NEW o \in ready' PROVE o \in Named \ resolved' /\ Deps(o) \subseteq resolved'
    <3>1. CASE o \in ready \ {n}
      BY <1>7, <1>9, <3>1
    <3>2. CASE o \in Named \ (resolved' \cup ready) /\ work'[o] = {}
      <4>1. Deps(o) \ resolved' = {}
        BY <1>10, <3>2
      <4> QED BY <3>2, <4>1
    <3> QED BY <1>9, <2>1, <3>1, <3>2
  <2>2. ASSUME NEW o \in Named \ resolved', Deps(o) \subseteq resolved' PROVE o \in ready'
    <3>1. CASE o \in ready
      BY <1>9, <2>2, <3>1
    <3>2. CASE o \notin ready
      <4>1. ~(Deps(o) \subseteq resolved)
        BY <1>7, <1>9, <2>2, <3>2
      <4>2. n \in Deps(o) \ resolved
        BY <1>8, <1>9, <2>2, <4>1
      <4>3. n \in work[o] /\ work'[o] = {}
        BY <1>7, <1>10, <2>2, <4>2
      <4> QED BY <1>9, <2>2, <3>2, <4>3
    <3> QED BY <3>1, <3>2
  <2> QED BY <2>1, <2>2
<1>12. ASSUME NEW U \in SUBSET Named, Knot(U) PROVE U \cap resolved' = {}
  <2>1. U \cap resolved = {}
    BY <1>7, <1>12
  <2>2. n \notin U
    BY <1>8, <1>12, <2>1 DEF Knot
  <2> QED BY <1>9, <2>1, <2>2
<1>13. Worklist'
  <2>1. \A U \in SUBSET Named' : Knot(U)' => U \cap resolved' = {}
    BY <1>3, <1>12, KnotKept
  <2>2. resolved' \subseteq Named'
    BY <1>3, <1>7, <1>8, <1>9
  <2>3. ready' = {o \in Named' \ resolved' : Deps(o)' \subseteq resolved'}
    BY <1>3, <1>11
  <2>4. \A o \in Named' : work'[o] = Deps(o)' \ resolved'
    BY <1>3, <1>10
  <2> QED BY <1>1, <2>1, <2>2, <2>3, <2>4 DEF Worklist
<1> QED BY <1>2, <1>4, <1>5, <1>6, <1>13 DEF IInv

\* When nothing is ready, what is not resolved is a knot.
LEMMA ConcludeIInv == ASSUME IInv, Conclude PROVE IInv'
<1>1. /\ phase = "kahn" /\ ready = {} /\ UNCHANGED <<reading, kahn, ordering>>
      /\ phase' = IF Cardinality(resolved) = Cardinality(Named) THEN "accepted" ELSE "cyclic"
  BY DEF Conclude, Goto
<1>2. order' \in Seq(STRING) /\ visit' \in Nat /\ OrderedSoFar' /\ NothingMissed'
  BY <1>1, OrderingKept
<1>3. Named' = Named /\ \A n : Deps(n)' = Deps(n)
  BY <1>1 DEF reading, Named, Deps
<1>4. Types' /\ StepsRunnable'
  BY <1>1, <1>2, <1>3 DEF IInv, Types, StepsRunnable, reading
<1>5. DependenciesKnown'
  BY <1>1, <1>3 DEF IInv, DependenciesKnown
<1>6. Worklist'
  BY <1>1 DEF Worklist
<1>7. /\ resolved \subseteq Named
      /\ ready = {n \in Named \ resolved : Deps(n) \subseteq resolved}
      /\ \A U \in SUBSET Named : Knot(U) => U \cap resolved = {}
      /\ \A n \in Named : Deps(n) \subseteq Named
      /\ IsFiniteSet(Named)
  BY <1>1 DEF IInv, Worklist, DependenciesKnown, Types
<1>8. AcceptedIffAcyclic'
  <2>1. CASE Cardinality(resolved) = Cardinality(Named)
    <3>1. resolved = Named
      BY <1>7, <2>1, FS_Subset
    <3>2. \A U \in SUBSET Named : ~Knot(U)
      BY <1>7, <3>1 DEF Knot
    <3>3. phase' = "accepted"
      BY <1>1, <2>1
    <3>4. \A U \in SUBSET Named' : ~Knot(U)'
      BY <1>3, <3>2, KnotKept
    <3> QED BY <1>3, <1>7, <3>3, <3>4 DEF AcceptedIffAcyclic
  <2>2. CASE Cardinality(resolved) # Cardinality(Named)
    <3>1. resolved # Named
      BY <2>2
    <3>2. Knot(Named \ resolved)
      BY <1>1, <1>7, <3>1 DEF Knot
    <3>3. phase' = "cyclic"
      BY <1>1, <2>2
    <3>4. \E U \in SUBSET Named' : Knot(U)'
      BY <1>3, <3>2, KnotKept, Named \ resolved \in SUBSET Named
    <3> QED BY <3>3, <3>4 DEF AcceptedIffAcyclic, Checked
  <2> QED BY <2>1, <2>2
<1> QED BY <1>2, <1>4, <1>5, <1>6, <1>8 DEF IInv

-----------------------------------------------------------------------------
(* topo_order. *)

LEMMA CheckedKept ==
  ASSUME IInv, UNCHANGED reading, phase \in Checked, phase' \in Checked
  PROVE  DependenciesKnown' /\ AcceptedIffAcyclic' /\ Worklist'
<1>1. Named' = Named /\ \A n : Deps(n)' = Deps(n)
  BY DEF reading, Named, Deps
<1>2. /\ \A n \in Named : Deps(n) \subseteq Named
      /\ \A U \in SUBSET Named : ~Knot(U)
  BY DEF IInv, AcceptedIffAcyclic
<1>3. \A U \in SUBSET Named' : ~Knot(U)'
  BY <1>1, <1>2, KnotKept
<1>4. AcceptedIffAcyclic'
  BY <1>1, <1>2, <1>3 DEF AcceptedIffAcyclic, Checked
<1>5. DependenciesKnown'
  BY <1>1, <1>2 DEF DependenciesKnown
<1>6. Worklist'
  BY DEF Worklist, Checked
<1> QED BY <1>4, <1>5, <1>6

LEMMA StartOrderingIInv == ASSUME IInv, StartOrdering PROVE IInv'
<1>1. /\ phase = "accepted" /\ phase' = "pass" /\ UNCHANGED <<reading, kahn, order>>
      /\ visit' = 1 /\ progressed' = FALSE
  BY DEF StartOrdering, Goto
<1>2. DependenciesKnown' /\ AcceptedIffAcyclic' /\ Worklist'
  BY <1>1, CheckedKept DEF Checked
<1>3. Named' = Named /\ \A n : Deps(n)' = Deps(n)
  BY <1>1 DEF reading, Named, Deps
<1>4. order = <<>> /\ order' = <<>>
  BY <1>1 DEF IInv, OrderedSoFar
<1>5. Types' /\ StepsRunnable'
  BY <1>1, <1>3 DEF IInv, Types, StepsRunnable, reading
<1>6. OrderedSoFar'
  BY <1>4 DEF OrderedSoFar
<1>7. NothingMissed'
  <2>1. \A i \in 1..Len(list') : ~(i < 1)
    OBVIOUS
  <2> QED BY <1>1, <2>1 DEF NothingMissed
<1> QED BY <1>2, <1>5, <1>6, <1>7 DEF IInv

LEMMA VisitStepIInv == ASSUME IInv, VisitStep PROVE IInv'
<1> DEFINE x == list[visit]
<1>1. /\ phase = "pass" /\ phase' = "pass" /\ UNCHANGED <<reading, kahn>>
      /\ visit <= Len(list) /\ visit' = visit + 1
  BY DEF VisitStep
<1>2. DependenciesKnown' /\ AcceptedIffAcyclic' /\ Worklist'
  BY <1>1, CheckedKept DEF Checked
<1>3. Named' = Named /\ (\A n : Deps(n)' = Deps(n)) /\ list' = list
  BY <1>1 DEF reading, Named, Deps
<1>4. StepsRunnable'
  BY <1>1, <1>3 DEF IInv, StepsRunnable, reading
<1>5. /\ list \in Seq(STRING) /\ order \in Seq(STRING) /\ visit \in Nat
      /\ IsFiniteSet(Named) /\ default \in FailurePolicy
  BY DEF IInv, Types
<1>6. \A i \in DOMAIN order :
        /\ Deps(order[i]) \subseteq {order[j] : j \in 1..(i - 1)}
        /\ \A j \in DOMAIN order : order[i] = order[j] => i = j
  BY DEF IInv, OrderedSoFar
<1>7. CASE x \in Remaining /\ Satisfied(x)
  <2>1. order' = Append(order, x) /\ progressed' = TRUE
    BY <1>7 DEF VisitStep
  <2>2. x \in STRING /\ x \notin Placed
    BY <1>5, <1>7 DEF Remaining, Named
  <2>3. Deps(x) \subseteq Placed
    BY <1>1, <1>7 DEF IInv, DependenciesKnown, Checked, Satisfied, Remaining
  <2>4. /\ Len(order') = Len(order) + 1
        /\ order'[Len(order) + 1] = x
        /\ \A i \in 1..Len(order) : order'[i] = order[i]
    BY <1>5, <2>1, <2>2
  <2>5. order' \in Seq(STRING)
    BY <1>5, <2>1, <2>2
  <2>6. DOMAIN order = 1..Len(order) /\ DOMAIN order' = 1..(Len(order) + 1) /\ Len(order) \in Nat
    BY <1>5, <2>4, <2>5
  <2>7. OrderedSoFar'
    <3> SUFFICES ASSUME NEW i \in DOMAIN order'
                 PROVE  /\ Deps(order'[i]) \subseteq {order'[j] : j \in 1..(i - 1)}
                        /\ \A j \in DOMAIN order' : order'[i] = order'[j] => i = j
      BY <1>1, <1>3 DEF OrderedSoFar
    <3>1. CASE i \in DOMAIN order
      <4>1. order'[i] = order[i] /\ order[i] \in Placed
        BY <2>4, <2>6, <3>1 DEF Placed
      <4>2. \A j \in 1..(i - 1) : j \in 1..Len(order) /\ order'[j] = order[j]
        BY <2>4, <2>6, <3>1
      <4>3. {order[j] : j \in 1..(i - 1)} = {order'[j] : j \in 1..(i - 1)}
        BY <4>2
      <4>4. Deps(order'[i]) \subseteq {order'[j] : j \in 1..(i - 1)}
        BY <1>6, <3>1, <4>1, <4>3
      <4>5. ASSUME NEW j \in DOMAIN order', order'[i] = order'[j] PROVE i = j
        <5>1. order'[j] # x
          BY <2>2, <4>1, <4>5
        <5>2. j \in DOMAIN order /\ order'[j] = order[j]
          BY <2>4, <2>6, <5>1
        <5> QED BY <1>6, <3>1, <4>1, <4>5, <5>2
      <4> QED BY <4>4, <4>5
    <3>2. CASE i = Len(order) + 1
      <4>1. order'[i] = x
        BY <2>4, <3>2
      <4>2. Placed = {order'[j] : j \in 1..(i - 1)}
        <5>1. 1..(i - 1) = DOMAIN order
          BY <2>6, <3>2
        <5>2. \A j \in DOMAIN order : order'[j] = order[j]
          BY <2>4, <2>6
        <5> QED BY <5>1, <5>2 DEF Placed
      <4>3. ASSUME NEW j \in DOMAIN order', order'[i] = order'[j] PROVE i = j
        <5>1. j \notin DOMAIN order
          BY <2>2, <2>4, <2>6, <4>1, <4>3 DEF Placed
        <5> QED BY <2>6, <3>2, <5>1
      <4> QED BY <2>3, <4>1, <4>2, <4>3
    <3> QED BY <2>6, <3>1, <3>2
  <2>8. Types'
    BY <1>1, <1>3, <1>5, <2>5 DEF Types, reading
  <2>9. NothingMissed'
    BY <2>1 DEF NothingMissed
  <2> QED BY <1>2, <1>4, <2>7, <2>8, <2>9 DEF IInv
<1>8. CASE ~(x \in Remaining /\ Satisfied(x))
  <2>1. UNCHANGED <<order, progressed>>
    BY <1>8 DEF VisitStep
  <2>2. Types'
    BY <1>1, <1>3, <1>5, <2>1 DEF Types, reading
  <2>3. OrderedSoFar'
    BY <1>1, <1>3, <1>6, <2>1 DEF OrderedSoFar
  <2>4. Placed' = Placed /\ Remaining' = Remaining /\ \A n : Satisfied(n)' = Satisfied(n)
    BY <1>3, <2>1 DEF Placed, Remaining, Satisfied
  <2>5. NothingMissed'
    <3> SUFFICES ASSUME ~progressed', NEW i \in 1..Len(list), i < visit + 1, list[i] \in Remaining
                 PROVE  ~Satisfied(list[i])
      BY <1>1, <1>3, <2>4 DEF NothingMissed
    <3>1. CASE i = visit
      BY <1>8, <3>1
    <3>2. CASE i < visit
      BY <1>1, <2>1, <3>2 DEF IInv, NothingMissed
    <3> QED BY <1>5, <3>1, <3>2
  <2> QED BY <1>2, <1>4, <2>2, <2>3, <2>5 DEF IInv
<1> QED BY <1>7, <1>8

LEMMA NextPassIInv == ASSUME IInv, NextPass PROVE IInv'
<1>1. /\ phase = "pass" /\ phase' = "pass" /\ UNCHANGED <<reading, kahn, order>>
      /\ visit' = 1 /\ progressed' = FALSE
  BY DEF NextPass, PassOver
<1>2. DependenciesKnown' /\ AcceptedIffAcyclic' /\ Worklist'
  BY <1>1, CheckedKept DEF Checked
<1>3. Named' = Named /\ \A n : Deps(n)' = Deps(n)
  BY <1>1 DEF reading, Named, Deps
<1>4. Types' /\ StepsRunnable'
  BY <1>1, <1>3 DEF IInv, Types, StepsRunnable, reading
<1>5. OrderedSoFar'
  BY <1>1, <1>3 DEF IInv, OrderedSoFar
<1>6. NothingMissed'
  <2>1. \A i \in 1..Len(list') : ~(i < 1)
    OBVIOUS
  <2> QED BY <1>1, <2>1 DEF NothingMissed
<1> QED BY <1>2, <1>4, <1>5, <1>6 DEF IInv

\* A pass that went over the whole list and placed nothing leaves a knot,
\* unless it leaves nothing.
LEMMA NothingRemains == ASSUME IInv, PassOver, ~progressed PROVE Remaining = {}
<1>1. phase = "pass" /\ visit > Len(list)
  BY DEF PassOver
<1>2. list \in Seq(STRING) /\ visit \in Nat
  BY DEF IInv, Types
<1>3. \A n \in Remaining : \E i \in 1..Len(list) : list[i] = n
  BY <1>2 DEF Remaining, Named
<1>4. \A n \in Remaining : ~Satisfied(n)
  <2> SUFFICES ASSUME NEW n \in Remaining PROVE ~Satisfied(n)
    OBVIOUS
  <2>1. PICK i \in 1..Len(list) : list[i] = n
    BY <1>3
  <2>2. i < visit
    BY <1>1, <1>2, <2>1
  <2> QED BY <1>1, <2>1, <2>2 DEF IInv, NothingMissed
<1>5. \A n \in Remaining : Deps(n) \cap Remaining # {}
  BY <1>4 DEF Satisfied, Remaining
<1>6. Remaining \in SUBSET Named
  BY DEF Remaining
<1> QED BY <1>1, <1>5, <1>6 DEF IInv, AcceptedIffAcyclic, Checked, Knot

LEMMA EndOrderingIInv == ASSUME IInv, EndOrdering PROVE IInv'
<1>1. /\ phase = "pass" /\ phase' = "ordered" /\ UNCHANGED <<visit, progressed, reading, kahn>>
      /\ order' = order
  BY NothingRemains DEF EndOrdering, PassOver
<1>2. DependenciesKnown' /\ AcceptedIffAcyclic' /\ Worklist'
  BY <1>1, CheckedKept DEF Checked
<1>3. Named' = Named /\ \A n : Deps(n)' = Deps(n)
  BY <1>1 DEF reading, Named, Deps
<1>4. Types' /\ StepsRunnable'
  BY <1>1, <1>3 DEF IInv, Types, StepsRunnable, reading
<1>5. OrderedSoFar' /\ NothingMissed'
  BY <1>1, <1>3 DEF IInv, OrderedSoFar, NothingMissed
<1> QED BY <1>2, <1>4, <1>5 DEF IInv

LEMMA StutterIInv == ASSUME IInv, UNCHANGED vars PROVE IInv'
<1>1. UNCHANGED <<reading, kahn, ordering, phase>>
  BY DEF vars, reading, kahn, ordering
<1>2. Named' = Named /\ \A n : Deps(n)' = Deps(n)
  BY <1>1 DEF reading, Named, Deps
<1>3. Types' /\ StepsRunnable' /\ DependenciesKnown'
  BY <1>1, <1>2 DEF IInv, Types, StepsRunnable, DependenciesKnown, reading, ordering
<1>4. \A U : Knot(U)' <=> Knot(U)
  BY <1>2, KnotKept
<1>5. AcceptedIffAcyclic'
  BY <1>1, <1>2, <1>4 DEF IInv, AcceptedIffAcyclic
<1>6. Worklist'
  BY <1>1, <1>2, <1>4 DEF IInv, Worklist, kahn
<1>7. OrderedSoFar'
  BY <1>1, <1>2 DEF IInv, OrderedSoFar, ordering
<1>8. NothingMissed'
  BY <1>1, <1>2 DEF IInv, NothingMissed, Remaining, Placed, Satisfied, ordering, reading
<1> QED BY <1>3, <1>5, <1>6, <1>7, <1>8 DEF IInv

LEMMA InvariantHolds == Spec => []IInv
<1>1. IInv /\ [Next]_vars => IInv'
  <2> SUFFICES ASSUME IInv, [Next]_vars PROVE IInv'
    OBVIOUS
  <2> QED BY ReadHeaderIInv, ReadStepIInv, EndStepsIInv, CheckReferencesIInv, ResolveIInv, ConcludeIInv,
             StartOrderingIInv, VisitStepIInv, NextPassIInv, EndOrderingIInv, StutterIInv DEF Next
<1> QED BY InitIInv, <1>1, PTL DEF Spec

-----------------------------------------------------------------------------
\* For every document: the parser accepts it exactly if its dependencies are
\* known and free of cycles (_assert_no_dependency_cycles), in whatever order
\* `pop` takes the steps that are ready.
THEOREM AcceptsExactlyTheAcyclic == Spec => []AcceptedIffAcyclic
<1>1. IInv => AcceptedIffAcyclic
  BY DEF IInv
<1> QED BY InvariantHolds, <1>1, PTL

\* For every accepted definition: topo_order puts each step after everything it
\* depends on and none twice, and never falls back on the document's order.
THEOREM OrdersDependenciesFirst == Spec => []DependenciesFirst
<1>1. IInv => DependenciesFirst
  BY NothingRemains DEF IInv, OrderedSoFar, DependenciesFirst
<1> QED BY InvariantHolds, <1>1, PTL

\* For every document and every site: an executor refuses a step of an accepted
\* definition exactly for what parse_and_validate leaves to the run (the site's
\* settings, the scanner, the options' shape), never for a key that it checks; and
\* no such step has a timeout or a policy that the runner cannot use.
THEOREM AcceptsOnlyTheRunnable == Spec => []AcceptedIsRunnable
<1>1. IInv => AcceptedIsRunnable
  BY DEF IInv, StepsRunnable, Runnable, AcceptedIsRunnable
<1> QED BY InvariantHolds, <1>1, PTL
=============================================================================
