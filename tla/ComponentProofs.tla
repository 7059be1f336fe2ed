-------------------------- MODULE ComponentProofs --------------------------
(***************************************************************************)
(* The components of MCComponents, which share no state, proved correct for   *)
(* every value of their constants.  Each section has the inductive invariant  *)
(* of one component, one lemma per action, and the theorems.                  *)
(*                                                                         *)
(* Waves: the in-degree of a workload is the number of its references into    *)
(* the workloads that are in no wave yet, so one is available exactly if none *)
(* is left; the first member of a circular set to be placed would have had    *)
(* a reference left, into the set.                                           *)
(* Guidance: a report stays true of every VM that did not change.             *)
(* Plugins: the hosted platforms are exactly the keys of the loaded entries,  *)
(* so a plugin that reports a platform not its own leaves a key unhosted.     *)
(* Runtime: undisturbed commands run one at a time, and each step finds what  *)
(* the previous one left in the record, at the port and in the process table. *)
(* Backups: the id of a job names its template, templates are executed in     *)
(* order, and behind the cursor of a rollback everything is undone.           *)
(* Documents: a copy is consistent by itself, whatever is stored meanwhile,   *)
(* and differs from the stored document only in the fields marked dirty.      *)
(***************************************************************************)
EXTENDS ExecutionPlan, Lifecycle, ServerReadiness, PluginHost, LocalRuntime,
        BackupPortability, WorkspaceDocuments, FiniteSetTheorems, SequenceTheorems, TLAPS

-----------------------------------------------------------------------------
(* Waves (ExecutionPlan).                                                   *)

Counting == {"waves", "planned", "cycle"}
Unplaced == Matched \ Placed

DegreeInv == \A w \in Matched : indegree[w] = Cardinality(Into(w, Unplaced))
AvailableInv == available = {w \in Unplaced : Into(w, Unplaced) = {}}
FirstInv == \A w \in Placed : \A r \in mergedOverridesForVM(w) :
               waveOf[index[r]] \in 1 .. waveOf[w] - 1
CircularInv == \A S \in SUBSET Matched : Circular(S) => S \cap Placed = {}

WaveInv ==
    /\ spec \in Specs /\ EPTypeOK
    /\ planning \in Counting => DegreeInv /\ AvailableInv /\ FirstInv /\ CircularInv
    /\ planning = "planned" => Placed = Matched
    /\ planning = "cycle" => Placed # Matched /\ available = {}

\* A workload's dependencies are finitely many, also those inside a set of workloads.
LEMMA DepsFinite ==
    ASSUME spec \in Specs, NEW w, NEW S
    PROVE  /\ mergedOverridesForVM(w) \subseteq References
           /\ IsFiniteSet(Into(w, S)) /\ Cardinality(Into(w, S)) \in Nat
           /\ Cardinality(Into(w, S)) = 0 <=> Into(w, S) = {}
<1>1. mergedOverridesForVM(w) \subseteq References
  BY PlanAssumption DEF mergedOverridesForVM
<1>2. Into(w, S) \subseteq References
  BY <1>1 DEF Into
<1>3. IsFiniteSet(Into(w, S))
  BY <1>2, PlanAssumption, FS_Subset
<1>4. QED
  BY <1>1, <1>3, FS_CardinalityType, FS_EmptySet

\* Counting the references into a set and into a part of it.
LEMMA IntoDifference ==
    ASSUME spec \in Specs, NEW w, NEW S, NEW T \in SUBSET S
    PROVE  Cardinality(Into(w, S \ T)) = Cardinality(Into(w, S)) - Cardinality(Into(w, T))
<1>1. /\ IsFiniteSet(Into(w, S \ T)) /\ Cardinality(Into(w, S \ T)) \in Nat
      /\ IsFiniteSet(Into(w, T)) /\ Cardinality(Into(w, T)) \in Nat
  BY DepsFinite
<1>2. Into(w, S \ T) \cap Into(w, T) = {} /\ Into(w, S \ T) \cup Into(w, T) = Into(w, S)
  BY DEF Into
<1>3. Cardinality(Into(w, S)) = Cardinality(Into(w, S \ T)) + Cardinality(Into(w, T))
      - Cardinality(Into(w, S \ T) \cap Into(w, T))
  BY <1>1, <1>2, FS_Union
<1>4. Cardinality(Into(w, S \ T) \cap Into(w, T)) = 0
  BY <1>2, FS_EmptySet
<1>5. Cardinality(Into(w, S)) \in Nat
  BY DepsFinite
<1>6. QED
  BY <1>1, <1>3, <1>4, <1>5

\* The invariant holds before planning begins.
LEMMA WaveInitInv == EPInit => WaveInv
  BY DEF EPInit, WaveInv, EPTypeOK, Counting

\* Indexing the workloads by name keeps it.
LEMMA IndexInv == WaveInv /\ IndexByName => WaveInv'
<1> SUFFICES ASSUME WaveInv, IndexByName PROVE WaveInv'
  OBVIOUS
<1>1. Matched' = Matched /\ Known' = Known
  BY DEF IndexByName, Matched, Known, Bearers
<1>2. index' \in [Known -> Matched]
  BY DEF IndexByName
<1>3. QED
  BY <1>1, <1>2 DEF IndexByName, WaveInv, EPTypeOK, Counting

\* Resolving the dependencies sets every in-degree to what is unplaced.
LEMMA ResolveInv == WaveInv /\ ResolveDependencies => WaveInv'
<1> SUFFICES ASSUME WaveInv, ResolveDependencies PROVE WaveInv'
  OBVIOUS
<1>0. /\ spec' = spec /\ index' = index /\ waves' = waves
      /\ Matched' = Matched /\ Known' = Known
      /\ \A w : mergedOverridesForVM(w)' = mergedOverridesForVM(w)
  BY DEF ResolveDependencies, Matched, Known, Bearers, mergedOverridesForVM
<1>1. CASE planning' \in {"unknown", "self"}
  BY <1>0, <1>1 DEF ResolveDependencies, WaveInv, EPTypeOK, Counting
<1>2. CASE planning' = "waves"
  <2>1. /\ planning = "resolve" /\ ~Unresolved
        /\ indegree' = [w \in Matched |-> Cardinality(mergedOverridesForVM(w))]
        /\ available' = {w \in Matched : indegree'[w] = 0}
        /\ waveOf' = [w \in Matched |-> 0]
    BY <1>2 DEF ResolveDependencies
  <2>2. spec \in Specs /\ index \in [Known -> Matched] /\ waves \in Nat
    BY <2>1 DEF WaveInv, EPTypeOK
  <2>3. \A w \in Matched : mergedOverridesForVM(w) \subseteq Known
    BY <2>1 DEF Unresolved
  <2>4. Placed' = {} /\ Unplaced' = Matched
    BY <1>0, <2>1 DEF Placed, Unplaced
  <2>5. \A w \in Matched : Into(w, Matched) = mergedOverridesForVM(w)
    BY <2>2, <2>3 DEF Into
  <2>6. \A w \in Matched : Into(w, Unplaced)' = mergedOverridesForVM(w)
    BY <1>0, <2>4, <2>5 DEF Into
  <2>7. \A w \in Matched : /\ Cardinality(mergedOverridesForVM(w)) \in Nat
                           /\ Cardinality(mergedOverridesForVM(w)) = 0 <=> mergedOverridesForVM(w) = {}
    BY <2>2, <2>5, DepsFinite
  <2>8. DegreeInv'
    BY <1>0, <2>1, <2>6 DEF DegreeInv
  <2>9. AvailableInv'
    BY <1>0, <2>1, <2>4, <2>6, <2>7 DEF AvailableInv
  <2>10. FirstInv' /\ CircularInv'
    BY <2>4 DEF FirstInv, CircularInv
  <2>11. EPTypeOK'
    BY <1>0, <1>2, <2>1, <2>2, <2>3, <2>7 DEF EPTypeOK
  <2>12. QED
    BY <1>0, <1>2, <2>2, <2>8, <2>9, <2>10, <2>11 DEF WaveInv
<1>3. QED
  BY <1>1, <1>2 DEF ResolveDependencies

\* A wave lowers the in-degrees of exactly the workloads that waited for it.
LEMMA TakeWaveInv == WaveInv /\ TakeWave => WaveInv'
<1> SUFFICES ASSUME WaveInv, TakeWave PROVE WaveInv'
  OBVIOUS
<1>0. PICK wave \in SUBSET available :
        /\ Batch(wave) /\ Release(wave)
        /\ waveOf' = [w \in Matched |-> IF w \in wave THEN waves + 1 ELSE waveOf[w]]
  BY DEF TakeWave
<1>1. /\ spec' = spec /\ index' = index /\ waves' = waves + 1
      /\ planning = "waves" /\ planning' = "waves"
      /\ Matched' = Matched /\ Known' = Known
      /\ \A w : mergedOverridesForVM(w)' = mergedOverridesForVM(w)
  BY DEF TakeWave, Matched, Known, Bearers, mergedOverridesForVM
<1>2. /\ spec \in Specs /\ waves \in Nat
      /\ index \in [Known -> Matched]
      /\ \A w \in Matched : mergedOverridesForVM(w) \subseteq Known
      /\ waveOf \in [Matched -> 0 .. waves] /\ available \subseteq Matched
      /\ indegree \in [Matched -> Nat]
      /\ DegreeInv /\ AvailableInv /\ FirstInv /\ CircularInv
  BY <1>1 DEF WaveInv, EPTypeOK, Counting
<1>3. wave \subseteq Unplaced /\ \A w \in wave : Into(w, Unplaced) = {}
  BY <1>0, <1>2 DEF AvailableInv
<1>4. Placed' = Placed \cup wave /\ Unplaced' = Unplaced \ wave
  <2>1. Placed' = Placed \cup wave
    BY <1>0, <1>1, <1>2, <1>3 DEF Placed, Unplaced
  <2>2. QED
    BY <1>1, <2>1 DEF Unplaced
<1>5. \A w : /\ Into(w, Unplaced)' = Into(w, Unplaced \ wave)
             /\ \A S : Into(w, S)' = Into(w, S')
  BY <1>1, <1>4 DEF Into
<1>6. \A w \in Matched : /\ indegree'[w] = Cardinality(Into(w, Unplaced \ wave))
                         /\ indegree'[w] = indegree[w] - Cardinality(Into(w, wave))
  <2> SUFFICES ASSUME NEW w \in Matched
               PROVE  /\ indegree'[w] = Cardinality(Into(w, Unplaced \ wave))
                      /\ indegree'[w] = indegree[w] - Cardinality(Into(w, wave))
    OBVIOUS
  <2>1. indegree'[w] = indegree[w] - Cardinality(Into(w, wave))
    BY <1>0 DEF Release
  <2>2. Cardinality(Into(w, Unplaced \ wave))
          = Cardinality(Into(w, Unplaced)) - Cardinality(Into(w, wave))
    BY <1>2, <1>3, IntoDifference
  <2>3. QED
    BY <1>2, <2>1, <2>2 DEF DegreeInv
<1>7. DegreeInv'
  BY <1>1, <1>5, <1>6 DEF DegreeInv
\* A placed workload has no reference into what is not placed.
<1>8. \A w \in Placed \cup wave : Into(w, wave) = {}
  <2>1. \A w \in wave : Into(w, wave) = {}
    BY <1>3 DEF Into
  <2>2. \A w \in Placed : Into(w, wave) = {}
    <3> SUFFICES ASSUME NEW w \in Placed, NEW r \in mergedOverridesForVM(w), index[r] \in wave
                 PROVE  FALSE
      BY DEF Into
    <3>1. waveOf[index[r]] \in 1 .. waveOf[w] - 1 /\ index[r] \in Matched
      BY <1>2, <1>3 DEF FirstInv, Unplaced
    <3>2. index[r] \in Placed
      BY <1>2, <3>1 DEF Placed
    <3>3. QED
      BY <1>3, <3>2 DEF Unplaced
  <2>3. QED
    BY <2>1, <2>2
<1>9. AvailableInv'
  <2>1. available' = (available \ wave)
                     \cup {w \in Matched : Into(w, wave) # {} /\ indegree'[w] = 0}
    BY <1>0 DEF Release
  <2>2. \A w \in Matched : indegree'[w] = 0 <=> Into(w, Unplaced \ wave) = {}
    BY <1>2, <1>6, DepsFinite
  <2>3. \A w \in Matched : Into(w, Unplaced) = {} <=>
           Into(w, Unplaced \ wave) = {} /\ Into(w, wave) = {}
    BY <1>3 DEF Into
  <2>4. available = {w \in Unplaced : Into(w, Unplaced) = {}} /\ Unplaced \subseteq Matched
    BY <1>2 DEF AvailableInv, Unplaced
  <2>5. \A w \in Matched : w \in available' <=>
           w \in Unplaced \ wave /\ Into(w, Unplaced \ wave) = {}
    BY <1>8, <2>1, <2>2, <2>3, <2>4 DEF Unplaced
  <2>6. available' \subseteq Matched
    BY <2>1, <2>4
  <2>7. available' = {w \in Unplaced \ wave : Into(w, Unplaced \ wave) = {}}
    BY <2>4, <2>5, <2>6
  <2>8. QED
    BY <1>4, <1>5, <2>7 DEF AvailableInv
<1>10. FirstInv'
  <2> SUFFICES ASSUME NEW w \in Placed \cup wave, NEW r \in mergedOverridesForVM(w)
               PROVE  waveOf'[index[r]] \in 1 .. waveOf'[w] - 1
    BY <1>1, <1>4 DEF FirstInv
  <2>1. w \in Matched /\ index[r] \in Matched
    BY <1>2, <1>3 DEF Placed, Unplaced
  <2>2. CASE w \in Placed
    <3>1. waveOf[index[r]] \in 1 .. waveOf[w] - 1
      BY <1>2, <2>2 DEF FirstInv
    <3>2. index[r] \in Placed
      BY <1>2, <2>1, <3>1 DEF Placed
    <3>3. QED
      BY <1>0, <1>3, <2>1, <2>2, <3>1, <3>2 DEF Unplaced
  <2>3. CASE w \in wave
    <3>1. index[r] \in Placed /\ index[r] \notin wave
      BY <1>3, <2>1, <2>3 DEF Into, Unplaced
    <3>2. waveOf[index[r]] \in 1 .. waves
      BY <1>2, <2>1, <3>1 DEF Placed
    <3>3. waveOf'[index[r]] = waveOf[index[r]] /\ waveOf'[w] = waves + 1
      BY <1>0, <2>1, <2>3, <3>1
    <3>4. QED
      BY <1>2, <3>2, <3>3
  <2>4. QED
    BY <2>2, <2>3
<1>11. CircularInv'
  <2> SUFFICES ASSUME NEW S \in SUBSET Matched, \A w \in S : Into(w, S) # {}
               PROVE  S \cap (Placed \cup wave) = {}
    BY <1>1, <1>4, <1>5 DEF CircularInv, Circular, Into
  <2>1. S \cap Placed = {}
    BY <1>2 DEF CircularInv, Circular
  <2>2. S \subseteq Unplaced
    BY <2>1 DEF Unplaced
  <2>3. \A w \in wave : Into(w, S) = {}
    BY <1>3, <2>2 DEF Into
  <2>4. QED
    BY <2>1, <2>3
<1>12. EPTypeOK'
  <2>1. waveOf' \in [Matched -> 0 .. waves + 1]
    BY <1>0, <1>2
  <2>2. \A w \in Matched : indegree'[w] \in Nat
    BY <1>2, <1>6, DepsFinite
  <2>3. indegree' \in [Matched -> Nat]
    BY <1>0, <2>2 DEF Release
  <2>4. available' \subseteq Matched
    BY <1>0, <1>2 DEF Release
  <2>5. QED
    BY <1>1, <1>2, <2>1, <2>3, <2>4 DEF EPTypeOK
<1>13. QED
  BY <1>1, <1>2, <1>7, <1>9, <1>10, <1>11, <1>12 DEF WaveInv

\* What the invariant's parts are made of when only the planner's step changes.
LEMMA Steady ==
    ASSUME UNCHANGED <<spec, index, indegree, available, waveOf, waves>>
    PROVE  /\ Matched' = Matched /\ Known' = Known /\ Placed' = Placed
           /\ \A w : mergedOverridesForVM(w)' = mergedOverridesForVM(w)
           /\ DegreeInv' = DegreeInv /\ AvailableInv' = AvailableInv
           /\ FirstInv' = FirstInv /\ CircularInv' = CircularInv
<1>1. /\ Matched' = Matched /\ Known' = Known
      /\ \A w : mergedOverridesForVM(w)' = mergedOverridesForVM(w)
  BY DEF Matched, Known, Bearers, mergedOverridesForVM
<1>2. Placed' = Placed /\ Unplaced' = Unplaced
  BY <1>1 DEF Placed, Unplaced
<1>3. \A w : Into(w, Unplaced)' = Into(w, Unplaced)
  BY <1>1, <1>2 DEF Into
<1>4. DegreeInv' = DegreeInv
  BY <1>1, <1>3 DEF DegreeInv
<1>5. AvailableInv' = AvailableInv
  BY <1>2, <1>3 DEF AvailableInv
<1>6. FirstInv' = FirstInv
  BY <1>1, <1>2 DEF FirstInv
<1>7. CircularInv' = CircularInv
  BY <1>1, <1>2 DEF CircularInv, Circular, Into
<1>8. QED
  BY <1>1, <1>2, <1>4, <1>5, <1>6, <1>7

\* The planner ends with everything placed or a cycle among the rest.
LEMMA FinishInv == WaveInv /\ FinishPlan => WaveInv'
<1> SUFFICES ASSUME WaveInv, FinishPlan PROVE WaveInv'
  OBVIOUS
<1>1. UNCHANGED <<spec, index, indegree, available, waveOf, waves>>
  BY DEF FinishPlan
<1>2. /\ planning = "waves" /\ available = {}
      /\ planning' = IF Placed = Matched THEN "planned" ELSE "cycle"
  BY DEF FinishPlan
<1>3. DegreeInv' /\ AvailableInv' /\ FirstInv' /\ CircularInv'
  BY <1>1, <1>2, Steady DEF WaveInv, Counting
<1>4. EPTypeOK'
  BY <1>1, <1>2, Steady DEF WaveInv, EPTypeOK
<1>5. QED
  BY <1>1, <1>2, <1>3, <1>4, Steady DEF WaveInv

\* Every step keeps the invariant.
LEMMA WaveStepInv == WaveInv /\ [EPNext]_epvars => WaveInv'
<1> SUFFICES ASSUME WaveInv, [EPNext]_epvars PROVE WaveInv'
  OBVIOUS
<1>1. CASE UNCHANGED epvars
  <2>1. UNCHANGED <<spec, index, indegree, available, waveOf, waves>> /\ planning' = planning
    BY <1>1 DEF epvars
  <2>2. EPTypeOK'
    BY <2>1, Steady DEF WaveInv, EPTypeOK
  <2>3. QED
    BY <2>1, <2>2, Steady DEF WaveInv
<1>2. QED
  BY <1>1, IndexInv, ResolveInv, TakeWaveInv, FinishInv DEF EPNext

\* The variables of the planner keep their types.
THEOREM PlanTypes == EPSpec => []EPTypeOK
<1>1. WaveInv => EPTypeOK
  BY DEF WaveInv
<1>2. QED
  BY <1>1, WaveInitInv, WaveStepInv, PTL DEF EPSpec

\* Whatever the selectors, the names and the wave size: everything a workload
\* depends on is in an earlier wave.
THEOREM DependenciesComeFirst == EPSpec => []DependenciesFirst
<1>1. WaveInv => DependenciesFirst
  BY DEF WaveInv, DependenciesFirst, Counting, FirstInv
<1>2. QED
  BY <1>1, WaveInitInv, WaveStepInv, PTL DEF EPSpec

\* A plan is complete and its dependencies have no cycle; the error for a cycle is
\* reported only if there is one.
THEOREM CyclesExactly == EPSpec => []CyclesAreFound
<1>1. WaveInv => CyclesAreFound
  <2> SUFFICES ASSUME WaveInv PROVE CyclesAreFound
    OBVIOUS
  <2>1. CASE planning = "planned"
    BY <2>1 DEF WaveInv, CyclesAreFound, Counting, CircularInv
  <2>2. CASE planning = "cycle"
    <3>1. Unplaced # {} /\ Unplaced \in SUBSET Matched
      BY <2>2 DEF WaveInv, Unplaced, Placed
    <3>2. \A w \in Unplaced : Into(w, Unplaced) # {}
      BY <2>2 DEF WaveInv, Counting, AvailableInv
    <3>3. QED
      BY <2>2, <3>1, <3>2 DEF CyclesAreFound, Circular
  <2>3. QED
    BY <2>1, <2>2 DEF CyclesAreFound
<1>2. QED
  BY <1>1, WaveInitInv, WaveStepInv, PTL DEF EPSpec

\* Whatever inventory, spec, names and wave size buildDependencyAwareWaves gets,
\* its waves follow the dependencies and it refuses exactly the circular ones.
THEOREM WavesOrdered == EPSpec => []WavesAreOrdered
<1>1. EPTypeOK /\ DependenciesFirst /\ CyclesAreFound => WavesAreOrdered
  BY DEF WavesAreOrdered
<1>2. QED
  BY <1>1, PlanTypes, DependenciesComeFirst, CyclesExactly, PTL

-----------------------------------------------------------------------------
(* Lifecycle guidance (Lifecycle).                                          *)

\* The element that a fold over a set takes first, and the function of the subsets
\* of S that it computes for the values g.
First(s) == CHOOSE v \in s : TRUE
Sums(f, g, S) ==
    f = [s \in SUBSET S |-> IF s = {} THEN 0 ELSE g[First(s)] + f[s \ {First(s)}]]

\* Among subsets of a finite set there is a least one: the form of induction that
\* the proofs about sums of VM costs use, on a least counterexample.
LEMMA LeastSubset ==
    ASSUME NEW S, IsFiniteSet(S), NEW T, T \subseteq SUBSET S, T # {}
    PROVE  \E X \in T : \A Y \in T : Y \subseteq X => Y = X
<1>1. IsWellFoundedOn(StrictSubsetOrdering(S), SUBSET S)
  BY FS_FiniteSubsetsOfFinite, FS_StrictSubsetOrderingWellFounded
<1>2. \E X \in T : \A Y \in T : ~(<<Y, X>> \in StrictSubsetOrdering(S))
  BY <1>1, WFMin
<1>3. QED
  BY <1>2 DEF StrictSubsetOrdering

\* CHOOSE takes an element of the set that is summed.
LEMMA FirstIn == ASSUME NEW s, s # {} PROVE First(s) \in s
  BY DEF First

\* Two computations of the sum of the same costs agree on every finite set of VMs,
\* whatever larger sets they were started for.
LEMMA SumsAgree ==
    ASSUME NEW g, NEW A, NEW B, NEW f, NEW h, Sums(f, g, A), Sums(h, g, B),
           NEW W, W \subseteq A, W \subseteq B, IsFiniteSet(W)
    PROVE  f[W] = h[W]
<1> DEFINE T == {X \in SUBSET W : f[X] # h[X]}
<1>1. ASSUME T # {} PROVE FALSE
  <2>1. PICK X \in T : \A Y \in T : Y \subseteq X => Y = X
    <3>1. T \subseteq SUBSET W
      OBVIOUS
    <3> HIDE DEF T
    <3>2. QED
      BY <1>1, <3>1, LeastSubset
  <2>2. X \in SUBSET A /\ X \in SUBSET B /\ X \subseteq W
    OBVIOUS
  <2>3. CASE X = {}
    BY <2>2, <2>3 DEF Sums
  <2>4. CASE X # {}
    <3> DEFINE Y == X \ {First(X)}
    <3>1. First(X) \in X
      BY <2>4, FirstIn
    <3>2. Y \subseteq X /\ Y # X /\ Y \in SUBSET W
      BY <2>2, <3>1
    <3>3. Y \notin T
      BY <2>1, <3>2
    <3>4. f[Y] = h[Y]
      BY <3>2, <3>3
    <3>5. f[X] = g[First(X)] + f[Y] /\ h[X] = g[First(X)] + h[Y]
      BY <2>2, <2>4 DEF Sums
    <3>6. QED
      BY <3>4, <3>5
  <2>5. QED
    BY <2>3, <2>4
<1>2. QED
  BY <1>1

\* The sum of the costs of finitely many VMs is computed: the recursion over the
\* subsets has a solution.
LEMMA SumsExist ==
    ASSUME NEW g, NEW S, IsFiniteSet(S)
    PROVE  \E f : Sums(f, g, S)
<1> DEFINE T == {X \in SUBSET S : ~\E f : Sums(f, g, X)}
<1>1. ASSUME T # {} PROVE FALSE
  <2>1. PICK X \in T : \A Y \in T : Y \subseteq X => Y = X
    <3>1. T \subseteq SUBSET S
      OBVIOUS
    <3> HIDE DEF T
    <3>2. QED
      BY <1>1, <3>1, LeastSubset
  <2>2. X \subseteq S /\ ~\E f : Sums(f, g, X)
    OBVIOUS
  <2> DEFINE of(Z) == CHOOSE f : Sums(f, g, Z)
  <2>3. ASSUME NEW Z \in SUBSET X, Z # X PROVE Sums(of(Z), g, Z) /\ IsFiniteSet(Z)
    <3>1. Z \in SUBSET S /\ Z \notin T
      BY <2>1, <2>2, <2>3
    <3>2. \E f : Sums(f, g, Z)
      BY <3>1
    <3>3. IsFiniteSet(Z)
      BY <3>1, FS_Subset
    <3>4. QED
      BY <3>2, <3>3
  <2> HIDE DEF of
  <2> DEFINE sum == [Z \in SUBSET X |-> of(Z)[Z]]
             all == [s \in SUBSET X |-> IF s # X THEN sum[s]
                                        ELSE IF X = {} THEN 0 ELSE g[First(X)] + sum[X \ {First(X)}]]
  <2>4. ASSUME NEW s \in SUBSET X, s # X
        PROVE  sum[s] = IF s = {} THEN 0 ELSE g[First(s)] + sum[s \ {First(s)}]
    <3>1. Sums(of(s), g, s) /\ s \in SUBSET s
      BY <2>3, <2>4
    <3>2. CASE s = {}
      BY <3>1, <3>2 DEF Sums
    <3>3. CASE s # {}
      <4> DEFINE W == s \ {First(s)}
      <4>1. First(s) \in s
        BY <3>3, FirstIn
      <4>2. W \in SUBSET X /\ W # X /\ W \subseteq s
        BY <4>1
      <4>3. of(s)[s] = g[First(s)] + of(s)[W]
        BY <3>1, <3>3 DEF Sums
      <4>4. Sums(of(W), g, W) /\ IsFiniteSet(W)
        BY <2>3, <4>2
      <4> HIDE DEF W
      <4>5. of(s)[W] = of(W)[W]
        BY <3>1, <4>2, <4>4, SumsAgree
      <4>6. sum[s] = of(s)[s] /\ sum[W] = of(W)[W]
        BY <4>2
      <4>7. QED
        BY <3>3, <4>3, <4>5, <4>6 DEF W
    <3>4. QED
      BY <3>2, <3>3
  <2>5. ASSUME NEW s \in SUBSET X
        PROVE  all[s] = IF s = {} THEN 0 ELSE g[First(s)] + all[s \ {First(s)}]
    <3>0. s # {} => s \ {First(s)} \in SUBSET X /\ s \ {First(s)} # X
      BY FirstIn
    <3>1. s # {} => all[s \ {First(s)}] = sum[s \ {First(s)}]
      BY <3>0
    <3>2. CASE s # X
      <4>1. all[s] = sum[s]
        BY <3>2
      <4> HIDE DEF all, sum
      <4>2. QED
        BY <2>4, <3>1, <3>2, <4>1
    <3>3. CASE s = X
      <4>1. all[s] = IF X = {} THEN 0 ELSE g[First(X)] + sum[X \ {First(X)}]
        BY <3>3
      <4> HIDE DEF all, sum
      <4>2. QED
        BY <3>1, <3>3, <4>1
    <3>4. QED
      BY <3>2, <3>3
  <2>6. all = [s \in SUBSET X |-> all[s]]
    OBVIOUS
  <2> HIDE DEF all
  <2>7. Sums(all, g, X)
    BY <2>5, <2>6 DEF Sums
  <2>8. QED
    BY <2>2, <2>7
<1>2. QED
  BY <1>1

\* SumFunction, which adds up what the VMs of a fleet cost, is that solution.
LEMMA SumIs ==
    ASSUME NEW g
    PROVE  SumFunction(g) = (CHOOSE f : Sums(f, g, DOMAIN g))[DOMAIN g]
  BY DEF SumFunction, SumFunctionOnSet, FoldFunctionOnSet, MapThenFoldSet, Sums, First

\* The difference of two totals is the total of the differences, VM by VM.
LEMMA SumOfDifferences ==
    ASSUME NEW S, IsFiniteSet(S), NEW g \in [S -> Int], NEW h \in [S -> Int], NEW d \in [S -> Int],
           \A v \in S : d[v] = g[v] - h[v]
    PROVE  SumFunction(d) = SumFunction(g) - SumFunction(h)
<1> DEFINE of(k) == CHOOSE f : Sums(f, k, S)
<1>1. /\ Sums(of(g), g, S) /\ SumFunction(g) = of(g)[S]
      /\ Sums(of(h), h, S) /\ SumFunction(h) = of(h)[S]
      /\ Sums(of(d), d, S) /\ SumFunction(d) = of(d)[S]
  <2>1. DOMAIN g = S /\ DOMAIN h = S /\ DOMAIN d = S
    OBVIOUS
  <2>2. ASSUME NEW k PROVE Sums(of(k), k, S)
    BY SumsExist
  <2>3. QED
    BY <2>1, <2>2, SumIs
<1> HIDE DEF of
<1> DEFINE Fits(X) == /\ of(g)[X] \in Int /\ of(h)[X] \in Int /\ of(d)[X] = of(g)[X] - of(h)[X]
           T == {X \in SUBSET S : ~Fits(X)}
<1>2. ASSUME T # {} PROVE FALSE
  <2>1. PICK X \in T : \A Y \in T : Y \subseteq X => Y = X
    <3>1. T \subseteq SUBSET S
      OBVIOUS
    <3> HIDE DEF T
    <3>2. QED
      BY <1>2, <3>1, LeastSubset
  <2>2. X \in SUBSET S /\ ~Fits(X)
    OBVIOUS
  <2>3. CASE X = {}
    BY <1>1, <2>2, <2>3 DEF Sums
  <2>4. CASE X # {}
    <3> DEFINE Y == X \ {First(X)}
    <3>1. First(X) \in X
      BY <2>4, FirstIn
    <3>2. Y \subseteq X /\ Y # X /\ Y \in SUBSET S
      BY <2>2, <3>1
    <3>3. Fits(Y)
      BY <2>1, <3>2
    <3>4. /\ of(g)[X] = g[First(X)] + of(g)[Y] /\ of(h)[X] = h[First(X)] + of(h)[Y]
          /\ of(d)[X] = d[First(X)] + of(d)[Y]
      BY <1>1, <2>2, <2>4 DEF Sums
    <3>5. /\ g[First(X)] \in Int /\ h[First(X)] \in Int /\ d[First(X)] = g[First(X)] - h[First(X)]
      BY <2>2, <3>1
    <3> HIDE DEF Y
    <3>6. QED
      BY <2>2, <3>3, <3>4, <3>5
  <2>5. QED
    BY <2>3, <2>4
<1>3. Fits(S)
  BY <1>2
<1>4. QED
  BY <1>1, <1>3

\* A fleet holds VMs, or nothing, at its positions.
FleetOK(f) == f \in [VMs -> VmRecords \cup {Absent}]

\* What Generate knew of the VM when it advised to move it: the target is one of
\* the cheapest platforms, the savings are those of CompareVM, and the VM alone
\* breaks no enforced policy there.
Advised(x, vm) ==
    /\ vm \in VmRecords /\ x.to \in Cheapest(vm) /\ x.saves = MonthlySavings(vm) /\ x.saves > 0
    /\ placementAllowed(vm, x.to, x.vm, {})

\* The last remediation report still describes every VM that did not change since;
\* if none changed, its violations, counts and events are those of the fleet of
\* now.
ReportInv ==
    guidance # Absent =>
      /\ \A x \in guidance.placements :
           x.vm \in VMs /\ x.to \in Priced /\ (x.vm \notin touched => Advised(x, fleet[x.vm]))
      /\ guidance.compared # Absent => FleetOK(guidance.compared)
      /\ touched = {} =>
           /\ guidance.violations = EvaluateWithWaivers(fleet, {})
           /\ guidance.compliant = CompliantVMs(fleet, guidance.violations)
           /\ guidance.compared # Absent => guidance.events = Compare(guidance.compared, fleet)

\* The inductive invariant of the guidance.
GuideInv ==
    /\ FleetOK(fleet) /\ (baseline # Absent => FleetOK(baseline))
    /\ ReportInv /\ SimulationPredicts

\* calculateLicenseCost and CalculateVMCost give whole numbers for every priced
\* platform.
LEMMA CostType ==
    ASSUME NEW vm, vm.cpu \in Nat, NEW p \in Priced
    PROVE  CalculateVMCost(vm, p) \in Int
<1>1. Profiles[p].cpu \in Nat /\ Profiles[p].license \in Nat /\ Profiles[p].support \in Nat
  BY LifecycleAssumption DEF Priced
<1>2. estimatedSockets(vm.cpu) \in Nat
  BY DEF estimatedSockets
<1>3. ASSUME NEW m \in Nat, NEW n \in Nat PROVE m * n \in Nat
  OBVIOUS
<1>4. calculateLicenseCost(vm, Profiles[p]) \in Nat
  BY <1>1, <1>2, <1>3 DEF calculateLicenseCost
<1>5. vm.cpu * Profiles[p].cpu \in Nat
  BY <1>1, <1>3
<1>6. QED
  BY <1>1, <1>4, <1>5 DEF CalculateVMCost

\* What CalculateVMCost says of a VM on a platform does not depend on the platform
\* that it runs on.
LEMMA CostMoves ==
    ASSUME NEW vm \in VmRecords, NEW p, NEW q
    PROVE  CalculateVMCost([vm EXCEPT !.platform = q], p) = CalculateVMCost(vm, p)
<1>1. [vm EXCEPT !.platform = q].cpu = vm.cpu
  BY DEF VmRecords
<1>2. QED
  BY <1>1 DEF CalculateVMCost, calculateLicenseCost

\* CompareVM takes any of the equally cheap platforms, for the savings and for the
\* target: the move saves what is said, whichever the two are.
LEMMA SavesAsSaid ==
    ASSUME NEW x, NEW vm, Advised(x, vm)
    PROVE  /\ vm.platform \in Priced
           /\ CalculateVMCost(vm, vm.platform) - CalculateVMCost(vm, x.to) = MonthlySavings(vm)
<1>1. vm.platform \in Priced /\ Priced # {} /\ vm.cpu \in Nat
  BY DEF Advised, MonthlySavings, VmRecords
<1> DEFINE best == CHOOSE p \in Cheapest(vm) : TRUE
<1>2. best \in Cheapest(vm) /\ x.to \in Cheapest(vm)
  BY DEF Advised
<1>3. MonthlySavings(vm) = CalculateVMCost(vm, vm.platform) - CalculateVMCost(vm, best)
  BY <1>1 DEF MonthlySavings
<1> HIDE DEF best
<1>4. /\ CalculateVMCost(vm, best) <= CalculateVMCost(vm, x.to)
      /\ CalculateVMCost(vm, x.to) <= CalculateVMCost(vm, best)
      /\ best \in Priced /\ x.to \in Priced
  BY <1>2 DEF Cheapest
<1>5. CalculateVMCost(vm, best) \in Int /\ CalculateVMCost(vm, x.to) \in Int
  BY <1>1, <1>4, CostType
<1>6. CalculateVMCost(vm, best) = CalculateVMCost(vm, x.to)
  BY <1>4, <1>5
<1>7. QED
  BY <1>1, <1>3, <1>6

\* placementAllowed evaluates the VM alone: moved, it violates no enforced policy.
LEMMA AllowedAsSaid ==
    ASSUME NEW v \in VMs, NEW vm, NEW p, [vm EXCEPT !.platform = p] # Absent,
           placementAllowed(vm, p, v, {}), NEW policy \in policies, policy.severity = "enforce"
    PROVE  ~violates([vm EXCEPT !.platform = p], policy)
<1> DEFINE there == [vm EXCEPT !.platform = p]
           moved == [u \in VMs |-> IF u = v THEN there ELSE Absent]
<1>1. Enforced(EvaluateWithWaivers(moved, {})) = {}
  BY DEF placementAllowed
<1>2. moved[v] = there /\ v \in Present(moved)
  BY DEF Present
<1> HIDE DEF there, moved
<1>3. ASSUME violates(there, policy) PROVE FALSE
  <2>1. <<v, policy>> \in Present(moved) \X policies
    BY <1>2
  <2>2. ~matchingWaiver(policy, v, {})
    BY DEF matchingWaiver
  <2>3. <<v, policy>> \in EvaluateWithWaivers(moved, {})
    BY <1>2, <1>3, <2>1, <2>2 DEF EvaluateWithWaivers
  <2>4. <<v, policy>> \in Enforced(EvaluateWithWaivers(moved, {}))
    BY <2>3 DEF Enforced
  <2>5. QED
    BY <1>1, <2>4
<1>4. QED
  BY <1>3 DEF there

\* A VM that was moved to a priced platform is a VM.
LEMMA MovedRecord ==
    ASSUME NEW vm \in VmRecords, NEW p \in Priced
    PROVE  [vm EXCEPT !.platform = p] \in VmRecords /\ [vm EXCEPT !.platform = p] # Absent
<1>1. [vm EXCEPT !.platform = p] \in VmRecords
  BY DEF VmRecords, Priced
<1>2. QED
  BY <1>1, LifecycleAssumption

\* Where keys differ, indexVMs finds every VM under its own key.
LEMMA IndexOf ==
    ASSUME Unique, NEW f, NEW v \in Present(f)
    PROVE  ids[v] \in DOMAIN indexVMs(f) /\ indexVMs(f)[ids[v]] = f[v]
<1>1. v \in VMs /\ Present(f) \subseteq VMs /\ VMs \subseteq Nat
  BY LifecycleAssumption DEF Present
<1>2. ids[v] \in {ids[u] : u \in Present(f)}
  OBVIOUS
<1> DEFINE last == CHOOSE u \in Present(f) : ids[u] = ids[v] /\ \A w \in Present(f) : ids[w] = ids[v] => w <= u
<1>3. last \in Present(f) /\ ids[last] = ids[v]
  <2>1. \A w \in Present(f) : ids[w] = ids[v] => w <= v
    BY <1>1 DEF Unique
  <2>2. QED
    BY <2>1
<1>4. last = v
  BY <1>1, <1>3 DEF Unique
<1>5. indexVMs(f)[ids[v]] = f[last]
  BY <1>2 DEF indexVMs
<1>6. QED
  BY <1>2, <1>4, <1>5 DEF indexVMs

\* mapsEqual reads a missing key as an empty value; it still tells maps apart if
\* no value of the first is empty: they have as many keys, and the keys of the
\* first are all in the second.
LEMMA EqualMaps ==
    ASSUME NEW left, NEW right, IsFiniteSet(DOMAIN left), IsFiniteSet(DOMAIN right),
           left = [k \in DOMAIN left |-> left[k]], right = [k \in DOMAIN right |-> right[k]],
           mapsEqual(left, right), \A k \in DOMAIN left : left[k] # ""
    PROVE  right = left
<1>1. \A k \in DOMAIN left : k \in DOMAIN right /\ right[k] = left[k]
  BY DEF mapsEqual, Tag
<1>2. DOMAIN left \subseteq DOMAIN right
  BY <1>1
<1>3. DOMAIN left = DOMAIN right
  BY <1>2, FS_Subset DEF mapsEqual
<1>4. QED
  BY <1>1, <1>3

\* A comparison without an event, of VMs with keys of their own, was made of the
\* same VMs with the same tags and as many CPUs up to the threshold.
LEMMA NoDrift ==
    ASSUME Unique, NEW old, NEW new, FleetOK(old), FleetOK(new), Compare(old, new) = {}
    PROVE  /\ Present(new) = Present(old)
           /\ \A v \in Present(new) :
                /\ new[v].cpu - old[v].cpu \in -CPUThreshold .. CPUThreshold
                /\ (\A k \in DOMAIN old[v].tags : old[v].tags[k] # "") => new[v].tags = old[v].tags
<1> DEFINE was == indexVMs(old)
           is == indexVMs(new)
<1>1. /\ DOMAIN was = {ids[v] : v \in Present(old)} /\ DOMAIN is = {ids[v] : v \in Present(new)}
  BY DEF indexVMs
<1> HIDE DEF was, is
<1>2. /\ DOMAIN is \ DOMAIN was = {} /\ DOMAIN was \ DOMAIN is = {}
      /\ \A k \in DOMAIN is \cap DOMAIN was : compareVMs(was[k], is[k]) = {}
  <2> DEFINE event(type, k, severity) == [type |-> type, key |-> k, severity |-> severity]
             modified == {x \in (DOMAIN is \cap DOMAIN was) \X {"cpu_count", "tags"} :
                           x[2] \in compareVMs(was[x[1]], is[x[1]])}
  <2>1. /\ {event("added", k, "info") : k \in DOMAIN is \ DOMAIN was} = {}
        /\ {event("removed", k, "critical") : k \in DOMAIN was \ DOMAIN is} = {}
        /\ {event(x[2], x[1], IF x[2] = "tags" THEN "info" ELSE "warning") : x \in modified} = {}
    BY DEF Compare, was, is
  <2>2. DOMAIN is \ DOMAIN was = {} /\ DOMAIN was \ DOMAIN is = {} /\ modified = {}
    BY <2>1
  <2>3. ASSUME NEW k \in DOMAIN is \cap DOMAIN was PROVE compareVMs(was[k], is[k]) = {}
    <3>1. compareVMs(was[k], is[k]) \subseteq {"cpu_count", "tags"}
      BY DEF compareVMs
    <3>2. ASSUME NEW field \in compareVMs(was[k], is[k]) PROVE FALSE
      <4>1. <<k, field>> \in modified
        BY <3>1, <3>2
      <4>2. QED
        BY <2>2, <4>1
    <3>3. QED
      BY <3>2
  <2>4. QED
    BY <2>2, <2>3
<1>3. Present(new) = Present(old)
  <2>1. Present(new) \subseteq VMs /\ Present(old) \subseteq VMs
    BY DEF Present
  <2>2. QED
    BY <1>1, <1>2, <2>1 DEF Unique
<1>4. ASSUME NEW v \in Present(new)
      PROVE  /\ new[v].cpu - old[v].cpu \in -CPUThreshold .. CPUThreshold
             /\ (\A k \in DOMAIN old[v].tags : old[v].tags[k] # "") => new[v].tags = old[v].tags
  <2>1. v \in VMs /\ new[v] \in VmRecords /\ old[v] \in VmRecords
    BY <1>3, <1>4 DEF FleetOK, Present
  <2>2. was[ids[v]] = old[v] /\ is[ids[v]] = new[v] /\ ids[v] \in DOMAIN is \cap DOMAIN was
    BY <1>3, IndexOf DEF was, is
  <2>3. compareVMs(old[v], new[v]) = {}
    BY <1>2, <2>2
  <2>4. absInt(old[v].cpu - new[v].cpu) <= CPUThreshold /\ mapsEqual(old[v].tags, new[v].tags)
    <3>1. old[v].cpu \in Nat /\ new[v].cpu \in Nat /\ CPUThreshold \in Nat
      BY <2>1, LifecycleAssumption DEF VmRecords
    <3>2. absInt(old[v].cpu - new[v].cpu) \in Int
      BY <3>1 DEF absInt
    <3>3. ~(absInt(old[v].cpu - new[v].cpu) > CPUThreshold) /\ mapsEqual(old[v].tags, new[v].tags)
      BY <2>3 DEF compareVMs
    <3>4. QED
      BY <3>1, <3>2, <3>3
  <2>5. new[v].cpu - old[v].cpu \in -CPUThreshold .. CPUThreshold
    BY <2>1, <2>4, LifecycleAssumption DEF VmRecords, absInt
  <2>6. \A vm \in VmRecords : IsFiniteSet(DOMAIN vm.tags) /\ vm.tags = [k \in DOMAIN vm.tags |-> vm.tags[k]]
    BY LifecycleAssumption DEF VmRecords
  <2>7. QED
    BY <2>1, <2>4, <2>5, <2>6, EqualMaps
<1>5. QED
  BY <1>3, <1>4

\* CompliantVMs subtracts the number of distinct keys that violate something,
\* which is at most the number of VMs that do, and exactly that if the keys
\* differ.
LEMMA Counted ==
    ASSUME NEW f, NEW violations, \A x \in violations : x[1] \in Present(f)
    PROVE  LET clean == {v \in Present(f) : \A x \in violations : x[1] # v}
           IN  /\ CompliantVMs(f, violations) >= Cardinality(clean)
               /\ Unique => CompliantVMs(f, violations) = Cardinality(clean)
<1> DEFINE clean == {v \in Present(f) : \A x \in violations : x[1] # v}
           dirtyVMs == {x[1] : x \in violations}
           dirtyKeys == {ids[x[1]] : x \in violations}
<1>1. IsFiniteSet(Present(f))
  BY FS_Subset, LifecycleAssumption DEF Present
<1>2. dirtyVMs \subseteq Present(f) /\ clean = Present(f) \ dirtyVMs
  OBVIOUS
<1>3. IsFiniteSet(dirtyVMs) /\ IsFiniteSet(clean)
  BY <1>1, <1>2, FS_Subset
<1>4. dirtyKeys = {ids[v] : v \in dirtyVMs}
  OBVIOUS
<1>5. /\ NonCompliantVMs(violations) = Cardinality(dirtyKeys)
      /\ CompliantVMs(f, violations) =
            IF Cardinality(Present(f)) - Cardinality(dirtyKeys) < 0 THEN 0
            ELSE Cardinality(Present(f)) - Cardinality(dirtyKeys)
  BY DEF NonCompliantVMs, CompliantVMs
<1> HIDE DEF clean, dirtyVMs, dirtyKeys
<1>6. /\ Cardinality(Present(f)) \in Nat /\ Cardinality(dirtyVMs) \in Nat /\ Cardinality(clean) \in Nat
  BY <1>1, <1>3, FS_CardinalityType
<1>7. Cardinality(clean) = Cardinality(Present(f)) - Cardinality(dirtyVMs)
  <2>1. Present(f) \cap dirtyVMs = dirtyVMs
    BY <1>2
  <2>2. QED
    BY <1>1, <1>2, <2>1, FS_Difference
<1> DEFINE key == [v \in dirtyVMs |-> ids[v]]
<1>8. IsFiniteSet(dirtyKeys) /\ Cardinality(dirtyKeys) \in Nat /\ Cardinality(dirtyKeys) <= Cardinality(dirtyVMs)
  <2>1. key \in Surjection(dirtyVMs, dirtyKeys)
    BY <1>4 DEF Surjection
  <2>2. QED
    BY <1>3, <2>1, FS_Surjection, FS_CardinalityType
<1>9. Unique => Cardinality(dirtyKeys) = Cardinality(dirtyVMs)
  <2>1. ASSUME Unique PROVE Cardinality(dirtyKeys) = Cardinality(dirtyVMs)
    <3>1. dirtyVMs \subseteq VMs
      BY <1>2 DEF Present
    <3>2. key \in Surjection(dirtyVMs, dirtyKeys) /\ key \in Injection(dirtyVMs, dirtyKeys)
      BY <1>4, <2>1, <3>1 DEF Unique, Injection, Surjection, IsInjective
    <3>3. QED
      BY <1>3, <3>2, FS_Surjection
  <2>2. QED
    BY <2>1
<1>10. /\ CompliantVMs(f, violations) >= Cardinality(clean)
       /\ Unique => CompliantVMs(f, violations) = Cardinality(clean)
  BY <1>5, <1>6, <1>7, <1>8, <1>9
<1>11. QED
  BY <1>10 DEF clean

\* Evaluations, advice, counts and comparisons depend on nothing of the state but
\* the policies and the keys.
LEMMA EvaluationKept ==
    ASSUME UNCHANGED <<policies, ids>>
    PROVE  /\ \A f, w : EvaluateWithWaivers(f, w)' = EvaluateWithWaivers(f, w)
           /\ \A x, vm : Advised(x, vm)' <=> Advised(x, vm)
           /\ \A f, violations : CompliantVMs(f, violations)' = CompliantVMs(f, violations)
           /\ \A f, g : Compare(f, g)' = Compare(f, g)
<1>1. \A policy, v, w : matchingWaiver(policy, v, w)' <=> matchingWaiver(policy, v, w)
  BY DEF matchingWaiver
<1>2. \A f, w : EvaluateWithWaivers(f, w)' = EvaluateWithWaivers(f, w)
  BY <1>1 DEF EvaluateWithWaivers
<1>3. \A vm, p, v, w : placementAllowed(vm, p, v, w)' <=> placementAllowed(vm, p, v, w)
  BY <1>2 DEF placementAllowed
<1>4. \A x, vm : Advised(x, vm)' <=> Advised(x, vm)
  BY <1>3 DEF Advised
<1>5. \A f, violations : CompliantVMs(f, violations)' = CompliantVMs(f, violations)
  BY DEF CompliantVMs, NonCompliantVMs
<1>6. \A f : indexVMs(f)' = indexVMs(f)
  BY DEF indexVMs
<1>7. \A f, g : Compare(f, g)' = Compare(f, g)
  BY <1>2, <1>6 DEF Compare
<1>8. QED
  BY <1>2, <1>4, <1>5, <1>7

\* A VM changes: what was advised for the others stays true.
LEMMA ChangeVMInv ==
    ASSUME GuideInv, NEW v \in VMs, ChangeVM(v)
    PROVE  GuideInv'
<1>1. PICK vm \in Changes \cup {Absent} : fleet' = [fleet EXCEPT ![v] = vm]
  BY DEF ChangeVM
<1>2. vm \in VmRecords \cup {Absent}
  BY LifecycleAssumption DEF Seen
<1>3. /\ touched' = touched \cup {v} /\ simulation' = Absent
      /\ UNCHANGED <<policies, ids, baseline, guidance>>
  BY DEF ChangeVM
<1>4. FleetOK(fleet)' /\ (baseline # Absent => FleetOK(baseline))'
  BY <1>1, <1>2, <1>3 DEF GuideInv, FleetOK
<1>5. ReportInv'
  <2>1. ASSUME guidance # Absent, NEW x \in guidance.placements, x.vm \notin touched'
        PROVE  fleet'[x.vm] = fleet[x.vm] /\ Advised(x, fleet[x.vm])
    BY <1>1, <1>3, <2>1 DEF GuideInv, ReportInv, FleetOK
  <2>2. ASSUME guidance # Absent, NEW x \in guidance.placements, x.vm \notin touched'
        PROVE  Advised(x, fleet[x.vm])'
    <3>1. PICK m : m = fleet[x.vm]
      OBVIOUS
    <3>2. Advised(x, m)'
      BY <1>3, <2>1, <2>2, <3>1, EvaluationKept
    <3>3. QED
      BY <2>1, <2>2, <3>1, <3>2
  <2>3. touched' # {}
    BY <1>3
  <2>4. QED
    BY <1>3, <2>2, <2>3 DEF GuideInv, ReportInv, FleetOK
<1>6. SimulationPredicts'
  BY <1>3 DEF SimulationPredicts
<1>7. QED
  BY <1>4, <1>5, <1>6 DEF GuideInv

\* The report stays true while the fleet stays the same.
LEMMA SameFleet ==
    ASSUME GuideInv, UNCHANGED <<policies, ids, fleet, guidance, touched>>
    PROVE  ReportInv'
<1>1. PICK f : f = fleet
  OBVIOUS
<1>2. ASSUME guidance # Absent, NEW x \in guidance.placements, x.vm \notin touched
      PROVE  Advised(x, fleet[x.vm])'
  <2>1. PICK m : m = fleet[x.vm]
    OBVIOUS
  <2>2. Advised(x, m)'
    BY <1>2, <2>1, EvaluationKept DEF GuideInv, ReportInv
  <2>3. QED
    BY <2>1, <2>2
<1>3. guidance # Absent /\ touched = {} =>
        /\ guidance.violations = EvaluateWithWaivers(f, {})'
        /\ guidance.compliant = CompliantVMs(f, guidance.violations)'
        /\ guidance.compared # Absent => guidance.events = Compare(guidance.compared, f)'
  BY <1>1, EvaluationKept DEF GuideInv, ReportInv
<1>4. QED
  BY <1>1, <1>2, <1>3 DEF GuideInv, ReportInv, FleetOK

\* handleRemediation: every placement is advised for the VM as it is.
LEMMA RemediationInv ==
    ASSUME GuideInv, handleRemediation
    PROVE  GuideInv'
<1> DEFINE violations == EvaluateWithWaivers(fleet, {})
           events == IF baseline = Absent THEN {} ELSE Compare(baseline, fleet)
<1>1. PICK pick \in Picks(fleet) :
        guidance' = [placements |-> Placements(fleet, {}, pick), events |-> events,
                     compared |-> baseline, violations |-> violations,
                     open |-> Recommendations(violations, Placements(fleet, {}, pick), events),
                     compliant |-> CompliantVMs(fleet, violations)]
  BY DEF handleRemediation
<1>2. touched' = {} /\ simulation' = Absent /\ UNCHANGED <<policies, ids, fleet, baseline>>
  BY DEF handleRemediation
<1>3. /\ guidance'.placements = Placements(fleet, {}, pick) /\ guidance'.events = events
      /\ guidance'.compared = baseline /\ guidance'.violations = violations
      /\ guidance'.compliant = CompliantVMs(fleet, violations)
  BY <1>1
<1>4. PICK f : f = fleet
  OBVIOUS
<1>5. ASSUME NEW x \in Placements(f, {}, pick)
      PROVE  x.vm \in VMs /\ x.to \in Priced /\ Advised(x, f[x.vm])
  <2>1. PICK v \in {u \in Present(f) : /\ pick[u] # f[u].platform /\ MonthlySavings(f[u]) > 0
                                       /\ placementAllowed(f[u], pick[u], u, {})} :
          x = [vm |-> v, to |-> pick[v], saves |-> MonthlySavings(f[v])]
    BY <1>5 DEF Placements
  <2>2. v \in VMs /\ f[v] \in VmRecords /\ pick[v] \in Cheapest(f[v]) /\ pick[v] \in Priced
    BY <1>4, <2>1 DEF GuideInv, FleetOK, Present, Picks
  <2>3. x.vm = v /\ x.to = pick[v] /\ x.saves = MonthlySavings(f[v])
    BY <2>1
  <2>4. QED
    BY <2>1, <2>2, <2>3 DEF Advised
<1>6. ReportInv'
  <2>1. ASSUME NEW x \in guidance'.placements
        PROVE  x.vm \in VMs /\ x.to \in Priced /\ Advised(x, fleet[x.vm])'
    <3>1. x \in Placements(f, {}, pick)
      BY <1>3, <1>4
    <3>2. PICK m : m = f[x.vm]
      OBVIOUS
    <3>3. Advised(x, m)'
      BY <1>2, <1>5, <3>1, <3>2, EvaluationKept
    <3>4. QED
      BY <1>2, <1>4, <1>5, <3>1, <3>2, <3>3
  <2>2. baseline # Absent => FleetOK(baseline)
    BY DEF GuideInv
  <2>3. /\ guidance'.violations = EvaluateWithWaivers(f, {})'
        /\ guidance'.compliant = CompliantVMs(f, guidance'.violations)
    BY <1>2, <1>3, <1>4, EvaluationKept
  <2>4. guidance'.compliant = CompliantVMs(fleet, guidance.violations)'
    <3>1. PICK x : x = guidance'.violations
      OBVIOUS
    <3>2. CompliantVMs(f, x)' = CompliantVMs(f, x)
      BY <1>2, EvaluationKept
    <3>3. QED
      BY <1>2, <1>4, <2>3, <3>1, <3>2
  <2>5. baseline # Absent => guidance'.events = Compare(guidance.compared, fleet)'
    <3>1. PICK b : b = baseline
      OBVIOUS
    <3>2. Compare(b, f)' = Compare(b, f)
      BY <1>2, EvaluationKept
    <3>3. QED
      BY <1>2, <1>3, <1>4, <3>1, <3>2
  <2>6. QED
    BY <1>2, <1>3, <1>4, <2>1, <2>2, <2>3, <2>4, <2>5 DEF ReportInv, FleetOK
<1>7. SimulationPredicts'
  BY <1>2 DEF SimulationPredicts
<1>8. QED
  BY <1>2, <1>6, <1>7 DEF GuideInv, FleetOK

\* FollowPlacement moves a VM and forgets the report.
LEMMA FollowInv ==
    ASSUME GuideInv, guidance # Absent, NEW x \in guidance.placements, FollowPlacement(x)
    PROVE  GuideInv'
<1>1. /\ fleet' = [fleet EXCEPT ![x.vm] = [fleet[x.vm] EXCEPT !.platform = x.to]] /\ fleet[x.vm] # Absent
      /\ guidance' = Absent /\ simulation' = Absent /\ UNCHANGED <<policies, ids, baseline>>
  BY DEF FollowPlacement
<1>2. x.vm \in VMs /\ x.to \in Priced /\ fleet[x.vm] \in VmRecords
  BY <1>1 DEF GuideInv, ReportInv, FleetOK
<1>3. FleetOK(fleet)'
  <2>1. [fleet[x.vm] EXCEPT !.platform = x.to] \in VmRecords
    BY <1>2, MovedRecord
  <2>2. QED
    BY <1>1, <1>2, <2>1 DEF GuideInv, FleetOK
<1>4. QED
  BY <1>1, <1>3 DEF GuideInv, FleetOK, ReportInv, SimulationPredicts

\* Simulate moves the selected VMs, all of them stay priced, and the difference of
\* the two monthly totals is the sum of what each VM costs more.
LEMMA Simulated ==
    ASSUME NEW f, FleetOK(f), NEW req, ~SimulationFails(f, req)
    PROVE  LET after == MovedFleet(f, req)
           IN  /\ \A v \in Present(f) :
                    IF req.all \/ ids[v] \in req.ids
                    THEN after[v] = [f[v] EXCEPT !.platform = req.target]
                    ELSE after[v] = f[v]
               /\ monthlyFleetCost(after) - monthlyFleetCost(f) =
                    SumFunction([v \in Present(f) |-> CalculateVMCost(after[v], after[v].platform)
                                                        - CalculateVMCost(f[v], f[v].platform)])
<1> DEFINE after == MovedFleet(f, req)
           S == Present(f)
<1>1. S \subseteq VMs /\ IsFiniteSet(S) /\ \A v \in S : f[v] \in VmRecords /\ f[v].cpu \in Nat
  <2>1. S \subseteq VMs /\ \A v \in S : f[v] \in VmRecords
    BY DEF FleetOK, Present
  <2>2. IsFiniteSet(S)
    BY <2>1, FS_Subset, LifecycleAssumption
  <2>3. QED
    BY <2>1, <2>2 DEF VmRecords
<1>2. \A v \in S : after[v] = IF req.all \/ ids[v] \in req.ids
                              THEN [f[v] EXCEPT !.platform = req.target] ELSE f[v]
  BY <1>1 DEF MovedFleet, Selected
<1>3. \A v \in S : f[v].platform \in Priced /\ after[v].platform \in Priced
  BY DEF SimulationFails
<1>4. \A v \in S : after[v] \in VmRecords /\ after[v].cpu \in Nat
  <2>1. ASSUME NEW v \in S PROVE after[v] \in VmRecords
    <3>1. CASE req.all \/ ids[v] \in req.ids
      <4>1. after[v] = [f[v] EXCEPT !.platform = req.target]
        BY <1>2, <3>1
      <4>2. after[v].platform = req.target
        BY <1>1, <4>1 DEF VmRecords
      <4>3. QED
        BY <1>1, <1>3, <4>1, <4>2, MovedRecord
    <3>2. CASE ~(req.all \/ ids[v] \in req.ids)
      BY <1>1, <1>2, <3>2
    <3>3. QED
      BY <3>1, <3>2
  <2>2. QED
    BY <2>1 DEF VmRecords
<1>5. Present(after) = S
  <2>1. \A v \in S : after[v] # Absent
    BY <1>4, LifecycleAssumption
  <2>2. \A v \in VMs \ S : after[v] = Absent
    BY DEF MovedFleet, Selected, Present
  <2>3. QED
    BY <1>1, <2>1, <2>2 DEF Present
<1> DEFINE g == [v \in S |-> CalculateVMCost(after[v], after[v].platform)]
           h == [v \in S |-> CalculateVMCost(f[v], f[v].platform)]
           d == [v \in S |-> CalculateVMCost(after[v], after[v].platform) - CalculateVMCost(f[v], f[v].platform)]
<1>6. monthlyFleetCost(after) = SumFunction(g) /\ monthlyFleetCost(f) = SumFunction(h)
  BY <1>5 DEF monthlyFleetCost
<1> HIDE DEF after, S
<1>7. \A v \in S : /\ CalculateVMCost(after[v], after[v].platform) \in Int
                   /\ CalculateVMCost(f[v], f[v].platform) \in Int
  BY <1>1, <1>3, <1>4, CostType
<1>8. /\ g \in [S -> Int] /\ h \in [S -> Int] /\ d \in [S -> Int]
      /\ \A v \in S : d[v] = g[v] - h[v]
  BY <1>7
<1>9. d = [v \in S |-> CalculateVMCost(after[v], after[v].platform) - CalculateVMCost(f[v], f[v].platform)]
  OBVIOUS
<1> HIDE DEF g, h, d
<1>10. SumFunction(d) = SumFunction(g) - SumFunction(h)
  BY <1>1, <1>8, SumOfDifferences
<1>11. monthlyFleetCost(after) - monthlyFleetCost(f) = SumFunction(d)
  BY <1>6, <1>10
<1>12. QED
  BY <1>2, <1>9, <1>11 DEF after, S

\* deriveWorkspaceReadiness: ready means no violation at all, and an enforced one
\* blocks.
LEMMA ReadinessDerived ==
    ASSUME NEW moved, NEW violations, NEW open
    PROVE  /\ deriveWorkspaceReadiness(moved, violations, open) = "ready" => violations = {}
           /\ Enforced(violations) # {} => deriveWorkspaceReadiness(moved, violations, open) = "blocked"
  BY DEF deriveWorkspaceReadiness

\* handleSimulation makes a result that predicts the moves.
LEMMA SimulationInv ==
    ASSUME GuideInv, handleSimulation
    PROVE  GuideInv'
<1>1. PICK req \in Requests :
      /\ ~SimulationFails(fleet, req)
      /\ LET after == MovedFleet(fleet, req)
             violations == EvaluateWithWaivers(after, req.waivers)
         IN  \E pick \in Picks(after) :
             LET open == Recommendations(violations, Placements(after, req.waivers, pick), {})
             IN  simulation' = [req |-> req, before |-> fleet, after |-> after,
                                delta |-> monthlyFleetCost(after) - monthlyFleetCost(fleet),
                                readiness |-> deriveWorkspaceReadiness(Selected(fleet, req), violations, open)]
      /\ guidance' = Absent /\ touched' = {} /\ UNCHANGED <<policies, ids, fleet, baseline>>
  BY DEF handleSimulation
<1> DEFINE after == MovedFleet(fleet, req)
           violations == EvaluateWithWaivers(after, req.waivers)
<1>2. PICK open : simulation' = [req |-> req, before |-> fleet, after |-> after,
                                 delta |-> monthlyFleetCost(after) - monthlyFleetCost(fleet),
                                 readiness |-> deriveWorkspaceReadiness(Selected(fleet, req), violations, open)]
  BY <1>1
<1>3. /\ simulation'.req = req /\ simulation'.before = fleet /\ simulation'.after = after
      /\ simulation'.delta = monthlyFleetCost(after) - monthlyFleetCost(fleet)
      /\ simulation'.readiness = deriveWorkspaceReadiness(Selected(fleet, req), violations, open)
  BY <1>2
<1>4. /\ \A v \in Present(fleet) : IF req.all \/ ids[v] \in req.ids
                                   THEN after[v] = [fleet[v] EXCEPT !.platform = req.target]
                                   ELSE after[v] = fleet[v]
      /\ monthlyFleetCost(after) - monthlyFleetCost(fleet) =
           SumFunction([v \in Present(fleet) |-> CalculateVMCost(after[v], after[v].platform)
                                                   - CalculateVMCost(fleet[v], fleet[v].platform)])
  BY <1>1, Simulated DEF GuideInv
<1>5. /\ simulation'.readiness = "ready" => violations = {}
      /\ Enforced(violations) # {} => simulation'.readiness = "blocked"
  BY <1>3, ReadinessDerived
<1>6. EvaluateWithWaivers(simulation.after, simulation.req.waivers)' = violations
  <2>1. PICK a, w : a = after /\ w = req.waivers
    OBVIOUS
  <2>2. EvaluateWithWaivers(a, w)' = EvaluateWithWaivers(a, w)
    BY <1>1, EvaluationKept
  <2>3. QED
    BY <1>3, <2>1, <2>2
<1> HIDE DEF violations, after
<1>7. SimulationPredicts'
  BY <1>1, <1>3, <1>4, <1>5, <1>6 DEF SimulationPredicts, Enforced
<1>8. QED
  BY <1>1, <1>7 DEF GuideInv, FleetOK, ReportInv

\* SaveBaseline keeps the fleet as it is.
LEMMA BaselineInv ==
    ASSUME GuideInv, SaveBaseline
    PROVE  GuideInv'
<1>1. baseline' = fleet /\ simulation' = Absent /\ UNCHANGED <<policies, ids, fleet, guidance, touched>>
  BY DEF SaveBaseline
<1>2. ReportInv'
  BY <1>1, SameFleet
<1>3. QED
  BY <1>1, <1>2 DEF GuideInv, FleetOK, SimulationPredicts

\* Every step keeps the invariant of the guidance.
LEMMA GuideStepInv ==
    ASSUME GuideInv, [LNext]_lvars
    PROVE  GuideInv'
<1>1. CASE LNext
  BY <1>1, ChangeVMInv, BaselineInv, RemediationInv, SimulationInv, FollowInv DEF LNext
<1>2. CASE UNCHANGED lvars
  <2>1. UNCHANGED <<policies, ids, fleet, baseline, guidance, touched, simulation>>
    BY <1>2 DEF lvars
  <2>2. ReportInv'
    BY <2>1, SameFleet
  <2>3. SimulationPredicts'
    <3>1. PICK s : s = simulation
      OBVIOUS
    <3>2. EvaluateWithWaivers(s.after, s.req.waivers)' = EvaluateWithWaivers(s.after, s.req.waivers)
      BY <2>1, EvaluationKept
    <3>3. QED
      BY <2>1, <3>1, <3>2 DEF GuideInv, SimulationPredicts, Enforced
  <2>4. QED
    BY <2>1, <2>2, <2>3 DEF GuideInv, FleetOK
<1>3. QED
  BY <1>1, <1>2

\* The invariant of the guidance holds before anything was asked.
LEMMA GuideInitInv ==
    ASSUME LInit
    PROVE  GuideInv
<1>1. FleetOK(fleet)
  <2>1. \A v \in VMs : fleet[v] \in Seen \cup {Absent}
    BY DEF LInit, Seen
  <2>2. fleet = [v \in VMs |-> fleet[v]]
    BY LifecycleAssumption DEF LInit
  <2>3. QED
    BY <2>1, <2>2, LifecycleAssumption DEF FleetOK
<1>2. QED
  BY <1>1 DEF LInit, GuideInv, ReportInv, SimulationPredicts

\* The invariant makes reports and simulations sound.
LEMMA GuideInvEnough ==
    ASSUME GuideInv
    PROVE  GuidanceIsSound
<1>1. DriftIsSeen
  <2>1. ASSUME guidance # Absent, guidance.compared # Absent, guidance.events = {}, Unique, touched = {}
        PROVE  Compare(guidance.compared, fleet) = {} /\ FleetOK(guidance.compared) /\ FleetOK(fleet)
    BY <2>1 DEF GuideInv, ReportInv
  <2>2. QED
    BY <2>1, NoDrift DEF DriftIsSeen
<1>2. CountsAgree
  <2>1. ASSUME guidance # Absent, touched = {}
        PROVE  /\ \A x \in guidance.violations : x[1] \in Present(fleet)
               /\ guidance.compliant = CompliantVMs(fleet, guidance.violations)
    BY <2>1 DEF GuideInv, ReportInv, EvaluateWithWaivers
  <2>2. QED
    BY <2>1, Counted DEF CountsAgree
<1>3. QED
  BY <1>1, <1>2 DEF GuidanceIsSound, GuideInv

\* The invariant of the guidance holds always.
LEMMA GuideAlways == LSpec => []GuideInv
<1>1. LInit => GuideInv
  BY GuideInitInv
<1>2. GuideInv /\ [LNext]_lvars => GuideInv'
  BY GuideStepInv
<1>3. QED
  BY <1>1, <1>2, PTL DEF LSpec

\* For every fleet, price list, policy set and threshold: a drift report without
\* events means that the fleet is that of the baseline, the compliance count of
\* handleRemediation never says too few VMs and is exact where keys differ, and a
\* simulation of handleSimulation names the exact change of the monthly cost and
\* calls nothing ready that violates a policy.
THEOREM GuidanceSound == LSpec => []GuidanceIsSound
<1>1. GuideInv => GuidanceIsSound
  BY GuideInvEnough
<1>2. QED
  BY <1>1, GuideAlways, PTL

\* Among all steps only following an advice moves a VM while the report is given
\* up, and the VM is the advised one.
LEMMA FollowSaves ==
    ASSUME GuideInv, [LNext]_lvars, guidance # Absent, NEW x \in guidance.placements,
           x.vm \notin touched, guidance' = Absent, fleet'[x.vm] # fleet[x.vm]
    PROVE  /\ x.saves > 0 /\ fleet[x.vm].platform \in Priced
           /\ CalculateVMCost(fleet[x.vm], fleet[x.vm].platform)
                - CalculateVMCost(fleet'[x.vm], fleet'[x.vm].platform) = x.saves
           /\ \A policy \in policies : policy.severity = "enforce" => ~violates(fleet'[x.vm], policy)
<1>1. PICK y \in guidance.placements : FollowPlacement(y)
  BY DEF LNext, lvars, ChangeVM, SaveBaseline, handleRemediation, handleSimulation
<1>2. fleet' = [fleet EXCEPT ![y.vm] = [fleet[y.vm] EXCEPT !.platform = y.to]] /\ fleet[y.vm] # Absent
  BY <1>1 DEF FollowPlacement
<1>3. x.vm \in VMs /\ fleet \in [VMs -> VmRecords \cup {Absent}]
  BY DEF GuideInv, ReportInv, FleetOK
<1>4. y.vm = x.vm
  BY <1>2, <1>3
<1> DEFINE vm == fleet[x.vm]
           there == [vm EXCEPT !.platform = y.to]
<1>5. fleet'[x.vm] = there
  BY <1>2, <1>3, <1>4
<1>6. y.to \in Priced /\ Advised(y, vm) /\ Advised(x, vm)
  BY <1>4 DEF GuideInv, ReportInv
<1>7. vm \in VmRecords /\ x.saves > 0 /\ x.saves = MonthlySavings(vm) /\ placementAllowed(vm, y.to, y.vm, {})
  BY <1>6 DEF Advised
<1> HIDE DEF vm
<1>8. there.platform = y.to
  BY <1>7 DEF VmRecords
<1>9. vm.platform \in Priced /\ CalculateVMCost(vm, vm.platform) - CalculateVMCost(vm, y.to) = x.saves
  BY <1>6, <1>7, SavesAsSaid
<1>10. CalculateVMCost(there, y.to) = CalculateVMCost(vm, y.to)
  BY <1>7, CostMoves
<1>11. there # Absent
  BY <1>6, <1>7, MovedRecord
<1>12. \A policy \in policies : policy.severity = "enforce" => ~violates(there, policy)
  BY <1>3, <1>4, <1>7, <1>11, AllowedAsSaid
<1> HIDE DEF there
<1>13. QED
  BY <1>5, <1>7, <1>8, <1>9, <1>10, <1>12 DEF vm

\* For every fleet and price list: a move that Generate advised, made while its VM
\* is unchanged, lowers the cost by exactly the savings named and breaks no
\* enforced policy, whatever else changed in the fleet.
THEOREM PlacementsSave == LSpec => PlacementSaves
<1>1. GuideInv /\ [LNext]_lvars =>
        \A x \in IF guidance = Absent THEN {} ELSE guidance.placements :
         (x.vm \notin touched /\ guidance' = Absent /\ fleet' # fleet /\ fleet'[x.vm] # fleet[x.vm]) =>
           /\ x.saves > 0 /\ fleet[x.vm].platform \in Priced
           /\ CalculateVMCost(fleet[x.vm], fleet[x.vm].platform)
                - CalculateVMCost(fleet'[x.vm], fleet'[x.vm].platform) = x.saves
           /\ \A policy \in policies : policy.severity = "enforce" => ~violates(fleet'[x.vm], policy)
  BY FollowSaves
<1>2. QED
  BY <1>1, GuideAlways, PTL DEF LSpec, PlacementSaves

-----------------------------------------------------------------------------
(* Start-up checks (ServerReadiness).                                       *)

\* Environments a running server may come to be in: circuits open and close.
LiveEnvironments ==
    [production : BOOLEAN, loopback : BOOLEAN, localRuntime : BOOLEAN, remotePeer : BOOLEAN,
     override : BOOLEAN, adminKey : AdminKeys, tenantKey : TenantKeys, store : StoreKinds,
     assets : BOOLEAN, policies : BOOLEAN, circuitOpen : BOOLEAN]

\* A server that serves passed validateProductionStartup and validateBindSecurity,
\* in the environment it is still in unless that changed; a circuit opens only
\* afterwards.
ReadyInv ==
    /\ env \in LiveEnvironments /\ srv \in {"created", "serving", "refused"}
    /\ changed \in BOOLEAN
    /\ ~changed => ~env.circuitOpen
    /\ srv = "serving" /\ ~changed => validateProductionStartup(env) /\ validateBindSecurity(env)

\* Every environment that a server may start in is one that it may come to be in.
LEMMA ReadyInitInv == QInit => ReadyInv
  BY DEF QInit, ReadyInv, Environments, LiveEnvironments, AdminKeys, TenantKeys, StoreKinds

\* Starting, refusing to start and a change of the environment keep the invariant.
LEMMA ReadyStepInv == ReadyInv /\ [QNext]_qvars => ReadyInv'
<1> SUFFICES ASSUME ReadyInv, [QNext]_qvars PROVE ReadyInv'
  OBVIOUS
<1>1. CASE StartServer
  BY <1>1 DEF StartServer, ReadyInv, validateProductionStartup, validateBindSecurity, hasConfiguredAPIKeys, validateProductionAdminKeyFormat
<1>2. CASE Change
  <2>1. env' \in LiveEnvironments
    BY <1>2 DEF Change, ReadyInv, LiveEnvironments, TenantKeys, StoreKinds
  <2>2. QED
    BY <1>2, <2>1 DEF Change, ReadyInv
<1>3. CASE UNCHANGED qvars
  BY <1>3 DEF qvars, ReadyInv, validateProductionStartup, validateBindSecurity, hasConfiguredAPIKeys, validateProductionAdminKeyFormat
<1>4. QED
  BY <1>1, <1>2, <1>3 DEF QNext

\* What validateProductionStartup accepted is ready for /readyz until something
\* changes.
LEMMA StartedReady == ReadyInv => StartedIsReady
  BY DEF ReadyInv, StartedIsReady, LiveEnvironments, StoreKinds, Ready, ReadinessIssues, validateProductionStartup, hasConfiguredAPIKeys

\* validateBindSecurity lets a server listen to other hosts without keys only
\* outside of production and on request.
LEMMA ExposureChosen == ReadyInv => ExposureIsChosen
  BY DEF ReadyInv, ExposureIsChosen, LiveEnvironments, validateBindSecurity, validateProductionStartup, hasConfiguredAPIKeys, localOperatorSessionEnabled

\* What the doctor approves, the start-up checks accept; a store that it does not
\* pass keeps production from starting.
LEMMA DoctorAgreed == ReadyInv => DoctorAgrees
<1> SUFFICES ASSUME ReadyInv PROVE DoctorAgrees
  OBVIOUS
<1>1. ASSUME collectDoctorAuthReport(env)
      PROVE  /\ validateBindSecurity([env EXCEPT !.loopback = FALSE])
             /\ ~localOperatorSessionEnabled(env)
  <2>1. hasConfiguredAPIKeys(env)
    BY <1>1 DEF ReadyInv, LiveEnvironments, TenantKeys, collectDoctorAuthReport, hasConfiguredAPIKeys
  <2>2. hasConfiguredAPIKeys([env EXCEPT !.loopback = FALSE])
    BY <2>1 DEF ReadyInv, LiveEnvironments, hasConfiguredAPIKeys
  <2>3. QED
    BY <2>1, <2>2 DEF validateBindSecurity, localOperatorSessionEnabled
<1>2. ASSUME inspectDoctorStore(env) # "pass"
      PROVE  ~validateProductionStartup([env EXCEPT !.production = TRUE])
  <2>1. env.store # "postgres"
    BY <1>2 DEF inspectDoctorStore
  <2>2. QED
    BY <2>1 DEF ReadyInv, LiveEnvironments, validateProductionStartup
<1>3. QED
  BY <1>1, <1>2 DEF DoctorAgrees

\* For every environment: start-up checks, /readyz and the doctor do not
\* contradict each other (ReadinessIsHonest).
THEOREM ReadinessHonest == QSpec => []ReadinessIsHonest
<1>1. ReadyInv => ReadinessIsHonest
  BY StartedReady, ExposureChosen, DoctorAgreed DEF ReadinessIsHonest
<1>2. QED
  BY <1>1, ReadyInitInv, ReadyStepInv, PTL DEF QSpec

-----------------------------------------------------------------------------
(* Plugins (PluginHost).                                                    *)

\* What the entries of a catalog may turn out to be, and the entries that New is
\* done with.
Setups == [Entries -> [spawned : BOOLEAN, reports : Platforms \cup {NoPlatform},
                       manifest : Manifests \cup {NoManifest}]]
Loaded == {e \in Entries : e \notin pending /\ e # current}

\* Types that PTypeOK leaves open.
PluginTypes ==
    /\ setup \in Setups
    /\ user \in [Connectors -> [step : {"idle", "built", "connected", "close"},
                                entry : Entries \cup {Nobody}, got : Connectors \cup {Nobody}]]
    /\ \A c \in Connectors : user[c].step # "idle" => user[c].entry \in Entries
    /\ current \in Entries => current \notin pending

\* While a catalog loads or is open, the platforms that the host has a plugin for
\* are exactly the keys of the loaded entries, each with the process of its entry,
\* and a factory of the registry that is a plugin's is the hosted one.
HostInv ==
    phase \in {"loading", "open"} =>
      /\ \A e \in Loaded : plugins[KeyOf[e]] = e
      /\ \A p \in Platforms : plugins[p] # Nobody => \E e \in Loaded : KeyOf[e] = p
      /\ \A p \in Platforms : factories[p] \in Entries => plugins[p] = factories[p]

\* A loaded process was not stopped, one that is to come was not started, and a
\* catalog that failed or was closed left none running.
ProcessInv ==
    /\ phase \in {"loading", "open"} => \A e \in Loaded : proc[e] # "closed"
    /\ \A e \in pending : proc[e] = "none"
    /\ phase \in {"failed", "closed"} => current = Nobody /\ \A e \in Entries : proc[e] # "running"

\* A process serves the connector that connected last; one that another connector
\* displaced is on record.
SessionInv ==
    \A c \in Connectors :
      /\ user[c].step \in {"built", "connected"} => user[c].got = Nobody
      /\ user[c].step = "connected" /\ c \notin displaced =>
            session[user[c].entry] \in {Nobody, c}

\* The inductive invariant of the plugin host.
PluginInv ==
    /\ PTypeOK /\ PluginTypes /\ HostInv /\ ProcessInv /\ SessionInv /\ ForeignInventoryIsRaced

\* The invariant of the plugin host holds before New loads anything.
LEMMA PluginInitInv == PInit => PluginInv
<1> SUFFICES ASSUME PInit PROVE PluginInv
  OBVIOUS
<1>1. PTypeOK /\ PluginTypes
  BY PluginAssumption DEF PInit, PTypeOK, PluginTypes, Setups
<1>2. HostInv /\ ProcessInv
  BY PluginAssumption DEF PInit, HostInv, ProcessInv, Loaded
<1>3. SessionInv /\ ForeignInventoryIsRaced
  BY DEF PInit, SessionInv, ForeignInventoryIsRaced
<1>4. QED
  BY <1>1, <1>2, <1>3 DEF PluginInv

\* In a loading or open catalog the host keeps exactly the loaded entries.
LEMMA HostedAreLoaded ==
    ASSUME PluginInv, phase \in {"loading", "open"}
    PROVE  Hosted = Loaded
<1>1. Hosted \subseteq Loaded
  BY DEF PluginInv, HostInv, Hosted, Loaded
<1>2. Loaded \subseteq Hosted
  BY PluginAssumption DEF PluginInv, HostInv, Hosted, Loaded
<1>3. QED
  BY <1>1, <1>2

\* Giving up stops the loaded entries and the current one.
LEMMA ShutdownInv ==
    ASSUME PluginInv, phase \in {"loading", "open"}, NEW S \in SUBSET Entries, S \cap pending = {}, ShutdownAll(S),
           current = Nobody \/ current \in S,
           phase' \in {"failed", "closed"}, current' = Nobody, pending' \subseteq pending,
           phase' = "closed" => phase = "open",
           UNCHANGED <<setup, factories, user, displaced>>
    PROVE  PluginInv'
<1>1. Hosted = Loaded
  BY HostedAreLoaded
<1>2. PTypeOK' /\ PluginTypes'
  <2>1. /\ proc' = [e \in Entries |-> IF e \in Hosted \cup S THEN "closed" ELSE proc[e]]
        /\ session' = [e \in Entries |-> IF e \in Hosted \cup S THEN Nobody ELSE session[e]]
        /\ plugins' = [p \in Platforms |-> Nobody]
    BY DEF ShutdownAll, Closed, ClosedSessions
  <2>2. /\ proc' \in [Entries -> {"none", "running", "exited", "closed"}]
        /\ session' \in [Entries -> Connectors \cup {Nobody}]
        /\ plugins' \in [Platforms -> Entries \cup {Nobody}]
    BY <2>1 DEF PluginInv, PTypeOK
  <2>3. PTypeOK'
    BY <2>2 DEF PluginInv, PTypeOK
  <2>4. PluginTypes'
    BY PluginAssumption DEF PluginInv, PluginTypes
  <2>5. QED
    BY <2>3, <2>4
<1>3. \A e \in Entries : proc'[e] # "running"
  <2> SUFFICES ASSUME NEW e \in Entries PROVE proc'[e] # "running"
    OBVIOUS
  <2>1. e \in pending => proc[e] = "none"
    BY DEF PluginInv, ProcessInv
  <2>2. e \notin pending => e \in Hosted \cup S
    BY <1>1, PluginAssumption DEF Loaded
  <2>3. QED
    BY <2>1, <2>2 DEF ShutdownAll, Closed
<1>4. \A e \in pending' : proc'[e] = "none"
  <2> SUFFICES ASSUME NEW e \in pending' PROVE proc'[e] = "none"
    OBVIOUS
  <2>1. e \in pending /\ e \in Entries /\ proc[e] = "none"
    BY DEF PluginInv, PTypeOK, ProcessInv
  <2>2. e \notin Loaded /\ e # current
    BY <2>1, PluginAssumption DEF Loaded, PluginInv, PluginTypes, PTypeOK
  <2>3. QED
    BY <1>1, <2>1, <2>2 DEF ShutdownAll, Closed
<1>5. HostInv' /\ ProcessInv'
  BY <1>3, <1>4 DEF HostInv, ProcessInv
<1>6. SessionInv'
  BY DEF PluginInv, PTypeOK, SessionInv, PluginTypes, ShutdownAll, ClosedSessions
<1>7. ForeignInventoryIsRaced'
  BY DEF PluginInv, ForeignInventoryIsRaced
<1>8. QED
  BY <1>2, <1>5, <1>6, <1>7 DEF PluginInv

\* startPlugin: a process is started for the entry, or New gives up before that.
LEMMA StartPluginInv ==
    ASSUME PluginInv, NEW e \in Entries, startPlugin(e)
    PROVE  PluginInv'
<1>1. CASE Fail({})
  <2>1. /\ phase = "loading" /\ current = Nobody /\ phase' = "failed" /\ current' = Nobody
        /\ ShutdownAll({}) /\ pending' \subseteq pending
        /\ UNCHANGED <<setup, factories, user, displaced>>
    BY <1>1 DEF startPlugin, Fail
  <2>2. QED
    BY <2>1, ShutdownInv
<1>2. CASE ~Fail({})
  <2>1. /\ phase = "loading" /\ current = Nobody /\ e \in pending /\ pending' = pending \ {e}
        /\ current' = e /\ proc' = [proc EXCEPT ![e] = "running"]
        /\ UNCHANGED <<phase, plugins, factories, session, setup, user, displaced>>
    BY <1>2 DEF startPlugin
  <2>2. PTypeOK' /\ PluginTypes'
    BY <2>1 DEF PluginInv, PTypeOK, PluginTypes
  <2>3. Loaded' = Loaded
    BY <2>1, PluginAssumption DEF Loaded
  <2>4. HostInv'
    BY <2>1, <2>3 DEF PluginInv, HostInv
  <2>5. ProcessInv'
    BY <2>1, <2>3 DEF PluginInv, PTypeOK, ProcessInv, Loaded
  <2>6. SessionInv' /\ ForeignInventoryIsRaced'
    BY <2>1 DEF PluginInv, SessionInv, ForeignInventoryIsRaced
  <2>7. QED
    BY <2>2, <2>4, <2>5, <2>6 DEF PluginInv
<1>3. QED
  BY <1>1, <1>2

\* connectPlugin refuses the plugin that was just started.
LEMMA ConnectFailsInv ==
    ASSUME PluginInv, NEW e \in Entries, connectPluginFails(e)
    PROVE  PluginInv'
<1>1. /\ phase = "loading" /\ current = e /\ phase' = "failed" /\ current' = Nobody
      /\ ShutdownAll({e}) /\ pending' \subseteq pending
      /\ UNCHANGED <<setup, factories, user, displaced>>
  BY DEF connectPluginFails, Fail
<1>2. {e} \cap pending = {}
  BY <1>1 DEF PluginInv, PluginTypes
<1>3. QED
  BY <1>1, <1>2, ShutdownInv

\* LoadPlugin keeps a plugin only under its own key: the keys of the loaded entries are
\* the hosted platforms, so another platform leaves this key without a process.
LEMMA LoadPluginInv ==
    ASSUME PluginInv, NEW e \in Entries, LoadPlugin(e)
    PROVE  PluginInv'
<1> DEFINE p == setup[e].reports
           replaced == {plugins[p]} \ {Nobody}
           hosted == [plugins EXCEPT ![p] = e]
<1>1. /\ phase = "loading" /\ current = e /\ e \notin pending
      /\ UNCHANGED <<setup, pending, user, displaced>>
  BY DEF LoadPlugin, PluginInv, PluginTypes
<1>2. plugins[KeyOf[e]] = Nobody /\ KeyOf[e] \in Platforms
  <2>1. KeyOf[e] \in Platforms
    BY PluginAssumption
  <2>2. \A d \in Loaded : KeyOf[d] # KeyOf[e]
    BY <1>1, PluginAssumption DEF Loaded
  <2>3. QED
    BY <1>1, <2>1, <2>2 DEF PluginInv, HostInv
<1>3. ASSUME NEW S \in SUBSET Entries, S \cap pending = {}, e \in S, Fail(S) PROVE PluginInv'
  <2>1. /\ phase' = "failed" /\ current' = Nobody /\ ShutdownAll(S) /\ pending' \subseteq pending
        /\ UNCHANGED <<setup, factories, user, displaced>>
    BY <1>1, <1>3 DEF Fail
  <2>2. QED
    BY <1>1, <1>3, <2>1, ShutdownInv
<1>4. CASE p = NoPlatform
  <2>1. Fail({e})
    BY <1>4 DEF LoadPlugin
  <2>2. QED
    BY <1>1, <1>3, <2>1
<1>5. CASE p # NoPlatform /\ hosted[KeyOf[e]] = Nobody
  <2>1. Fail(replaced \cup {e})
    BY <1>5 DEF LoadPlugin
  <2>2. p \in Platforms
    BY <1>5 DEF PluginInv, PluginTypes, Setups
  <2>3. replaced \subseteq Loaded
    BY <1>1, <2>2, HostedAreLoaded DEF Hosted
  <2>4. (replaced \cup {e}) \cap pending = {} /\ replaced \cup {e} \subseteq Entries
    BY <1>1, <2>3 DEF Loaded
  <2>5. QED
    BY <1>3, <2>1, <2>4
<1>6. CASE p # NoPlatform /\ hosted[KeyOf[e]] # Nobody
  <2>1. p = KeyOf[e]
    <3>1. p \in Platforms
      BY <1>6 DEF PluginInv, PluginTypes, Setups
    <3>2. QED
      BY <1>2, <1>6, <3>1 DEF PluginInv, PTypeOK
  <2>2. replaced = {} /\ hosted[KeyOf[e]] = e
    BY <1>2, <2>1 DEF PluginInv, PTypeOK
  <2>3. /\ plugins' = [plugins EXCEPT ![KeyOf[e]] = e]
        /\ proc' = Closed({}) /\ session' = ClosedSessions({})
        /\ factories' = [factories EXCEPT ![KeyOf[e]] = e]
        /\ current' = Nobody /\ phase' = phase
    BY <1>6, <2>1, <2>2 DEF LoadPlugin
  <2>4. proc' = proc /\ session' = session
    BY <2>3 DEF Closed, ClosedSessions, PluginInv, PTypeOK
  <2>5. PTypeOK' /\ PluginTypes'
    BY <1>1, <1>2, <2>3, <2>4, PluginAssumption DEF PluginInv, PTypeOK, PluginTypes
  <2>6. Loaded' = Loaded \cup {e}
    BY <1>1, <2>3, PluginAssumption DEF Loaded
  <2>7. HostInv'
    <3>1. \A d \in Loaded' : plugins'[KeyOf[d]] = d
      BY <1>1, <1>2, <2>3, <2>6, PluginAssumption DEF PluginInv, HostInv, PTypeOK, Loaded
    <3>2. \A q \in Platforms : plugins'[q] # Nobody => \E d \in Loaded' : KeyOf[d] = q
      BY <1>1, <1>2, <2>3, <2>6 DEF PluginInv, HostInv, PTypeOK
    <3>3. \A q \in Platforms : factories'[q] \in Entries => plugins'[q] = factories'[q]
      BY <1>1, <1>2, <2>3 DEF PluginInv, HostInv, PTypeOK
    <3>4. QED
      BY <3>1, <3>2, <3>3 DEF HostInv
  <2>8. ProcessInv'
    <3>1. proc[e] # "closed"
      BY DEF LoadPlugin, Accepted
    <3>2. QED
      BY <1>1, <2>3, <2>4, <2>6, <3>1 DEF PluginInv, ProcessInv
  <2>9. SessionInv' /\ ForeignInventoryIsRaced'
    BY <1>1, <2>4 DEF PluginInv, SessionInv, ForeignInventoryIsRaced
  <2>10. QED
    BY <2>5, <2>7, <2>8, <2>9 DEF PluginInv
<1>7. QED
  BY <1>4, <1>5, <1>6

\* The catalog opens, a process exits by itself, the catalog is closed.
LEMMA CatalogInv ==
    ASSUME PluginInv, NewReturns \/ CatalogClose \/ \E e \in Entries : PluginExits(e)
    PROVE  PluginInv'
<1>1. CASE NewReturns
  <2>1. /\ phase = "loading" /\ phase' = "open" /\ pending = {} /\ current = Nobody
        /\ UNCHANGED <<setup, pending, current, proc, plugins, factories, session, user, displaced>>
    BY <1>1 DEF NewReturns, usevars
  <2>2. PTypeOK' /\ PluginTypes'
    BY <2>1 DEF PluginInv, PTypeOK, PluginTypes
  <2>3. HostInv' /\ ProcessInv'
    BY <2>1 DEF PluginInv, HostInv, ProcessInv, Loaded
  <2>4. SessionInv' /\ ForeignInventoryIsRaced'
    BY <2>1 DEF PluginInv, SessionInv, ForeignInventoryIsRaced
  <2>5. QED
    BY <2>2, <2>3, <2>4 DEF PluginInv
<1>2. CASE CatalogClose
  <2>1. /\ phase = "open" /\ phase' = "closed" /\ ShutdownAll({}) /\ pending' \subseteq pending
        /\ current = Nobody /\ current' = Nobody /\ UNCHANGED <<setup, factories, user, displaced>>
    BY <1>2 DEF CatalogClose, PluginInv, PTypeOK
  <2>2. QED
    BY <2>1, ShutdownInv
<1>3. ASSUME NEW e \in Entries, PluginExits(e) PROVE PluginInv'
  <2>1. /\ proc[e] = "running" /\ proc' = [proc EXCEPT ![e] = "exited"]
        /\ session' = [session EXCEPT ![e] = Nobody]
        /\ UNCHANGED <<setup, pending, current, phase, plugins, factories, user, displaced>>
    BY <1>3 DEF PluginExits
  <2>2. PTypeOK' /\ PluginTypes'
    BY <2>1 DEF PluginInv, PTypeOK, PluginTypes
  <2>3. HostInv'
    BY <2>1 DEF PluginInv, HostInv, Loaded
  <2>4. ProcessInv'
    BY <2>1 DEF PluginInv, PTypeOK, ProcessInv, Loaded
  <2>5. SessionInv' /\ ForeignInventoryIsRaced'
    BY <2>1 DEF PluginInv, PTypeOK, PluginTypes, SessionInv, ForeignInventoryIsRaced
  <2>6. QED
    BY <2>2, <2>3, <2>4, <2>5 DEF PluginInv
<1>4. QED
  BY <1>1, <1>2, <1>3

\* A step of one connector leaves the host alone; what it does to its own place, to the
\* session of its process and to the displaced ones is all that matters.
LEMMA ConnectorInv ==
    ASSUME PluginInv, NEW c \in Connectors,
           UNCHANGED <<setup, pending, current, phase, proc, plugins, factories>>,
           user' = [user EXCEPT ![c] = user'[c]],
           user'[c] \in [step : {"idle", "built", "connected", "close"},
                         entry : Entries \cup {Nobody}, got : Connectors \cup {Nobody}],
           user'[c].step # "idle" => user'[c].entry \in Entries,
           session' \in [Entries -> Connectors \cup {Nobody}],
           displaced' \subseteq Connectors, displaced \ {c} \subseteq displaced',
           \A d \in Connectors \ {c} : d \notin displaced' /\ user[d].step = "connected" =>
              session'[user[d].entry] \in {Nobody, session[user[d].entry]},
           user'[c].step \in {"built", "connected"} => user'[c].got = Nobody,
           user'[c].step = "connected" /\ c \notin displaced' =>
              session'[user'[c].entry] \in {Nobody, c},
           user'[c].got \notin {Nobody, c} => c \in displaced'
    PROVE  PluginInv'
<1>1. PTypeOK' /\ PluginTypes'
  BY DEF PluginInv, PTypeOK, PluginTypes
<1>2. HostInv' /\ ProcessInv'
  BY DEF PluginInv, HostInv, ProcessInv, Loaded
<1>3. \A d \in Connectors \ {c} : user'[d] = user[d]
  BY DEF PluginInv, PluginTypes
<1>4. SessionInv'
  BY <1>3 DEF PluginInv, PluginTypes, SessionInv
<1>5. ForeignInventoryIsRaced'
  BY <1>3 DEF PluginInv, ForeignInventoryIsRaced
<1>6. QED
  BY <1>1, <1>2, <1>4, <1>5 DEF PluginInv

\* What a connector's actions write to its own place.
LEMMA OwnPlace ==
    ASSUME PluginInv, NEW c \in Connectors, NEW v, user' = [user EXCEPT ![c] = v]
    PROVE  user'[c] = v /\ user' = [user EXCEPT ![c] = user'[c]]
  BY DEF PluginInv, PluginTypes

\* Build, Connect, Discover, Close and a call that fails.
LEMMA UseInv ==
    ASSUME PluginInv, NEW c \in Connectors,
           Build(c) \/ CallFails(c) \/ Connect(c) \/ Discover(c) \/ Close(c)
    PROVE  PluginInv'
<1>1. /\ user[c] \in [step : {"idle", "built", "connected", "close"},
                       entry : Entries \cup {Nobody}, got : Connectors \cup {Nobody}]
      /\ user[c].step # "idle" => user[c].entry \in Entries
      /\ user[c].step \in {"built", "connected"} => user[c].got = Nobody
      /\ user[c].step = "connected" /\ c \notin displaced => session[user[c].entry] \in {Nobody, c}
      /\ user[c].got \notin {Nobody, c} => c \in displaced
      /\ session \in [Entries -> Connectors \cup {Nobody}] /\ displaced \subseteq Connectors
      /\ \A d \in Connectors : user[d].step = "connected" => user[d].entry \in Entries
  BY DEF PluginInv, PTypeOK, PluginTypes, SessionInv, ForeignInventoryIsRaced
<1>2. UNCHANGED <<setup, pending, current, phase, proc, plugins, factories>>
  BY DEF Build, CallFails, Connect, Discover, Close, UseRest
<1>3. CASE Build(c)
  <2>1. PICK p \in Platforms :
          /\ factories[p] \notin {Nobody, BuiltIn}
          /\ user' = [user EXCEPT ![c] = [step |-> "built", entry |-> factories[p], got |-> Nobody]]
    BY <1>3 DEF Build
  <2>2. factories[p] \in Entries
    BY <2>1 DEF PluginInv, PTypeOK
  <2>3. /\ user'[c] = [step |-> "built", entry |-> factories[p], got |-> Nobody]
        /\ user' = [user EXCEPT ![c] = user'[c]]
    BY <2>1, OwnPlace
  <2>4. displaced' = displaced \ {c} /\ session' = session
    BY <1>3 DEF Build
  <2>5. QED
    BY <1>1, <1>2, <2>2, <2>3, <2>4, ConnectorInv
<1>4. CASE CallFails(c)
  <2> DEFINE step == IF user[c].step = "built" THEN "idle" ELSE "close"
  <2>1. user' = [user EXCEPT ![c] = [user[c] EXCEPT !.step = step]]
    BY <1>4 DEF CallFails, Use
  <2>2. user'[c] = [user[c] EXCEPT !.step = step] /\ user' = [user EXCEPT ![c] = user'[c]]
    BY <2>1, OwnPlace
  <2>3. /\ user'[c].step \in {"idle", "close"} /\ user'[c].entry = user[c].entry
        /\ user'[c].got = user[c].got /\ user[c].step # "idle"
        /\ user'[c] \in [step : {"idle", "built", "connected", "close"},
                         entry : Entries \cup {Nobody}, got : Connectors \cup {Nobody}]
    BY <1>1, <1>4, <2>2 DEF CallFails
  <2>4. displaced' = displaced /\ session' = session
    BY <1>4 DEF CallFails
  <2>5. QED
    BY <1>1, <1>2, <2>2, <2>3, <2>4, ConnectorInv
<1>5. CASE Connect(c)
  <2>1. user' = [user EXCEPT ![c] = [user[c] EXCEPT !.step = "connected"]]
    BY <1>5 DEF Connect, Use
  <2>2. user'[c] = [user[c] EXCEPT !.step = "connected"] /\ user' = [user EXCEPT ![c] = user'[c]]
    BY <2>1, OwnPlace
  <2>3. /\ user'[c].step = "connected" /\ user'[c].entry = user[c].entry
        /\ user'[c].got = user[c].got /\ user[c].step = "built"
        /\ user'[c] \in [step : {"idle", "built", "connected", "close"},
                         entry : Entries \cup {Nobody}, got : Connectors \cup {Nobody}]
    BY <1>1, <1>5, <2>2 DEF Connect
  <2>4. /\ displaced' = (displaced \ {c}) \cup Others(c)
        /\ session' = [session EXCEPT ![user[c].entry] = c]
    BY <1>5 DEF Connect
  <2>5. /\ displaced' \subseteq Connectors /\ displaced \ {c} \subseteq displaced'
        /\ \A d \in Connectors \ {c} : d \notin displaced' => user[d].entry # user[c].entry
    BY <1>1, <2>4 DEF Others
  <2>6. /\ session' \in [Entries -> Connectors \cup {Nobody}] /\ session'[user'[c].entry] = c
        /\ \A d \in Connectors \ {c} : d \notin displaced' /\ user[d].step = "connected" =>
              session'[user[d].entry] = session[user[d].entry]
    BY <1>1, <2>3, <2>4, <2>5
  <2>7. QED
    BY <1>1, <1>2, <2>2, <2>3, <2>5, <2>6, ConnectorInv
<1>6. CASE Discover(c)
  <2>1. user' = [user EXCEPT ![c] = [step |-> "close", entry |-> user[c].entry,
                                     got |-> session[user[c].entry]]]
    BY <1>1, <1>6 DEF Discover, PluginInv, PluginTypes
  <2>2. /\ user'[c] = [step |-> "close", entry |-> user[c].entry, got |-> session[user[c].entry]]
        /\ user' = [user EXCEPT ![c] = user'[c]]
    BY <2>1, OwnPlace
  <2>3. user[c].step = "connected" /\ displaced' = displaced /\ session' = session
    BY <1>6 DEF Discover
  <2>4. QED
    BY <1>1, <1>2, <2>2, <2>3, ConnectorInv
<1>7. CASE Close(c)
  <2>1. user' = [user EXCEPT ![c] = [user[c] EXCEPT !.step = "idle"]]
    BY <1>7 DEF Close, Use
  <2>2. user'[c] = [user[c] EXCEPT !.step = "idle"] /\ user' = [user EXCEPT ![c] = user'[c]]
    BY <2>1, OwnPlace
  <2>3. /\ user'[c].step = "idle" /\ user'[c].got = user[c].got /\ user[c].step = "close"
        /\ user'[c] \in [step : {"idle", "built", "connected", "close"},
                         entry : Entries \cup {Nobody}, got : Connectors \cup {Nobody}]
    BY <1>1, <1>7, <2>2 DEF Close
  <2>4. /\ displaced' = displaced \cup Others(c)
        /\ session' = [session EXCEPT ![user[c].entry] = Nobody]
    BY <1>7 DEF Close
  <2>5. displaced' \subseteq Connectors /\ displaced \subseteq displaced'
    BY <1>1, <2>4 DEF Others
  <2>6. /\ session' \in [Entries -> Connectors \cup {Nobody}]
        /\ \A d \in Connectors : user[d].step = "connected" =>
              session'[user[d].entry] \in {Nobody, session[user[d].entry]}
    BY <1>1, <2>4
  <2>7. QED
    BY <1>1, <1>2, <2>2, <2>3, <2>5, <2>6, ConnectorInv
<1>8. QED
  BY <1>3, <1>4, <1>5, <1>6, <1>7

\* Every step of the catalog, of a plugin process or of a connector.
LEMMA PluginStepInv == PluginInv /\ [PNext]_pvars => PluginInv'
<1> SUFFICES ASSUME PluginInv, [PNext]_pvars PROVE PluginInv'
  OBVIOUS
<1>1. CASE PNext
  BY <1>1, StartPluginInv, ConnectFailsInv, LoadPluginInv, CatalogInv, UseInv DEF PNext
<1>2. CASE UNCHANGED pvars
  BY <1>2 DEF pvars, PluginInv, PTypeOK, PluginTypes, HostInv, ProcessInv, SessionInv,
              ForeignInventoryIsRaced, Loaded
<1>3. QED
  BY <1>1, <1>2

\* For every set of entries, keys, manifests and connectors: factories stand for
\* hosted processes that were not closed, a catalog that failed or was closed
\* leaves no process running, and a connector gets foreign data only after another
\* one used its process (PluginsAreHosted).
THEOREM PluginsHosted == PSpec => []PluginsAreHosted
<1>1. PluginInv => PluginsAreHosted
  <2> SUFFICES ASSUME PluginInv PROVE PluginsAreHosted
    OBVIOUS
  <2>1. RegisteredIsHosted
    <3> SUFFICES ASSUME phase = "open", NEW p \in Platforms, factories[p] \in Entries
                 PROVE  plugins[p] = factories[p] /\ proc[factories[p]] # "closed"
      BY DEF RegisteredIsHosted
    <3>1. plugins[p] = factories[p]
      BY DEF PluginInv, HostInv
    <3>2. factories[p] \in Loaded
      BY <3>1, PluginAssumption, HostedAreLoaded DEF Hosted
    <3>3. QED
      BY <3>1, <3>2 DEF PluginInv, ProcessInv
  <2>2. NoLeakedProcess
    BY DEF PluginInv, ProcessInv, NoLeakedProcess
  <2>3. QED
    BY <2>1, <2>2 DEF PluginInv, PluginsAreHosted
<1>2. QED
  BY <1>1, PluginInitInv, PluginStepInv, PTL DEF PSpec

-----------------------------------------------------------------------------
(* Local runtime (LocalRuntime).                                            *)

\* The steps and the kinds of the commands that start and stop the local runtime.
Steps == {"idle", "read", "probe", "forget", "launch", "write", "wait", "running", "clear",
          "verify", "kill", "gone"}
Kinds == {"none", "detached", "foreground", "stop"}
CmdType == [kind : Kinds, step : Steps, pid : Pids \cup {NoPid}]

\* Which commands are at which step, and which of them have a pid.
PlaceOK(k) ==
    /\ k.step = "idle" => k = Idle
    /\ k.step = "running" => k.kind = "foreground"
    /\ k.step \in {"probe", "forget", "launch", "write", "wait"} => k.kind \in Starts
    /\ k.step \in {"verify", "kill", "gone"} => k.kind = "stop"
    /\ k.step # "idle" => k.kind # "none"
    /\ k.pid = NoPid <=> k.step \in {"idle", "read", "probe", "forget", "launch"}

\* Types of the processes, the record and the commands.
RuntimeTypes ==
    /\ process \in [Pids -> Runtime \cup {"free", "foreign"}]
    /\ record \in Pids \cup {NoPid}
    /\ cmd \in [Commands -> CmdType]
    /\ \A c \in Commands : PlaceOK(cmd[c])
    /\ keys \in BOOLEAN /\ interrupt \in BOOLEAN /\ disowned \in BOOLEAN /\ killed \in BOOLEAN
    /\ recycled \subseteq Commands

\* A start owns the process it launched: a foreground start is that process, and the
\* pid of a child is not given away while its parent runs.
OwnInv ==
    /\ \A c, d \in Commands :
          cmd[c].kind \in Starts /\ cmd[d].kind \in Starts /\ cmd[c].pid # NoPid
             /\ cmd[c].pid = cmd[d].pid => c = d
    /\ \A c \in Commands : cmd[c].kind = "foreground" /\ cmd[c].pid # NoPid =>
          process[cmd[c].pid] \in Runtime

\* The port has one owner.
OneServer == \A p, q \in Pids : process[p] = "serving" /\ process[q] = "serving" => p = q

\* A stop that is about to kill a process verified it, unless the pid was recycled
\* since; nothing else was ever killed.
KillInv ==
    /\ \A c \in Commands : cmd[c].step = "kill" /\ c \notin recycled => process[cmd[c].pid] \in Runtime
    /\ ~killed

\* The processes of the runtime, and the state between commands: what lives
\* serves, and is the one on record.
Live == {p \in Pids : process[p] \in {"starting", "serving"}}
Settled == \A p \in Live : process[p] = "serving" /\ record = p

\* What a command may rely on at its step, while no other one interferes.
Place(c) ==
    /\ cmd[c].step \in {"read", "probe", "verify", "kill"} => Settled
    /\ cmd[c].step \in {"verify", "kill", "wait"} => record = cmd[c].pid
    /\ cmd[c].step \in {"forget", "launch", "clear", "gone"} => Live = {}
    /\ cmd[c].step \in {"write", "wait"} => Live \subseteq {cmd[c].pid}
    /\ cmd[c].step = "running" => process[cmd[c].pid] = "serving"

\* Without an interrupt and without a server that was disowned, commands run one
\* at a time and each finds what its step relies on.
OrderInv ==
    ~interrupt /\ ~disowned =>
      /\ \A c, d \in Commands : Active(c) /\ Active(d) => c = d
      /\ \A c \in Commands : Place(c)
      /\ (\A c \in Commands : ~Active(c)) => Settled

\* The inductive invariant of the local runtime.
RuntimeInv == RuntimeTypes /\ OwnInv /\ OneServer /\ KillInv /\ OrderInv

\* A step that a command takes.
CommandStep(c) ==
    \/ Begin(c) \/ prepareLocalRuntime(c) \/ Launch(c) \/ writeLocalRuntimeState(c)
    \/ waitForRuntimeHealth(c) \/ HealthTimeout(c) \/ ForegroundEnds(c)
    \/ clearLocalRuntimeState(c) \/ StopRead(c) \/ StopVerify(c)
    \/ killRuntimeProcess(c) \/ StopWait(c) \/ Interrupted(c)

\* The step of a command that is not idle.
LEMMA PlaceOf ==
    ASSUME RuntimeTypes, NEW c \in Commands
    PROVE  /\ cmd[c] \in CmdType /\ PlaceOK(cmd[c]) /\ PlaceOK(Idle) /\ Idle \in CmdType
           /\ \A t \in Steps : [cmd[c] EXCEPT !.step = t] = [kind |-> cmd[c].kind, step |-> t, pid |-> cmd[c].pid]
  BY RuntimeAssumption DEF RuntimeTypes, PlaceOK, CmdType, Kinds, Steps, Idle, Starts

\* prepareLocalRuntime, step by step.
LEMMA PrepareForm ==
    ASSUME NEW c \in Commands, prepareLocalRuntime(c)
    PROVE  /\ cmd[c].kind \in Starts /\ UNCHANGED <<process, keys, recycled, killed, disowned>>
           /\ \/ /\ cmd[c].step = "read" /\ cmd' = [cmd EXCEPT ![c] = [@ EXCEPT !.step = "launch"]]
                 /\ record = NoPid /\ UNCHANGED <<record, interrupt>>
              \/ /\ cmd[c].step = "read" /\ cmd' = [cmd EXCEPT ![c] = [@ EXCEPT !.step = "probe"]]
                 /\ UNCHANGED <<record, interrupt>>
              \/ /\ cmd[c].step = "probe" /\ cmd' = [cmd EXCEPT ![c] = Idle]
                 /\ UNCHANGED <<record, interrupt>>
              \/ /\ cmd[c].step = "probe" /\ cmd' = [cmd EXCEPT ![c] = [@ EXCEPT !.step = "forget"]]
                 /\ (interrupt' = TRUE \/ (~Listening /\ UNCHANGED interrupt)) /\ UNCHANGED record
              \/ /\ cmd[c].step = "forget" /\ cmd' = [cmd EXCEPT ![c] = [@ EXCEPT !.step = "launch"]]
                 /\ record' = NoPid /\ UNCHANGED interrupt
  BY DEF prepareLocalRuntime, Goto, End, At, Probe

\* StopVerify: the process is to be killed, or the record is to be removed.
LEMMA VerifyForm ==
    ASSUME NEW c \in Commands, StopVerify(c)
    PROVE  /\ cmd[c].kind = "stop" /\ cmd[c].step = "verify"
           /\ UNCHANGED <<process, keys, record, recycled, killed>>
           /\ \/ /\ cmd' = [cmd EXCEPT ![c] = [@ EXCEPT !.step = "kill"]]
                 /\ process[cmd[c].pid] \in Runtime /\ UNCHANGED <<interrupt, disowned>>
              \/ /\ cmd' = [cmd EXCEPT ![c] = [@ EXCEPT !.step = "clear"]]
                 /\ \/ interrupt' = TRUE /\ UNCHANGED disowned
                    \/ ~Listening /\ UNCHANGED <<interrupt, disowned>>
                    \/ /\ process[cmd[c].pid] \notin Runtime \/ keys
                       /\ disowned' = (disowned \/ (keys /\ Listening)) /\ UNCHANGED interrupt
  BY DEF StopVerify, recordedRuntimeVerified, Goto, At, Probe

\* killRuntimeProcess: nothing has the pid any more, or what has it is killed, together
\* with the foreground start that is the same process.
LEMMA KillForm ==
    ASSUME RuntimeTypes, NEW c \in Commands, killRuntimeProcess(c)
    PROVE  /\ cmd[c].kind = "stop" /\ cmd[c].step = "kill" /\ cmd[c].pid \in Pids
           /\ UNCHANGED <<keys, record, interrupt, disowned>>
           /\ \/ /\ cmd' = [cmd EXCEPT ![c] = Idle] /\ UNCHANGED <<process, killed, recycled>>
                 /\ process[cmd[c].pid] = "free"
              \/ /\ killed' = (killed \/ (process[cmd[c].pid] = "foreign" /\ c \notin recycled))
                 /\ Gone(cmd[c].pid)
                 /\ cmd' = [Without(cmd[c].pid) EXCEPT ![c] = [cmd[c] EXCEPT !.step = "gone"]]
<1>1. cmd[c].kind = "stop" /\ cmd[c].step = "kill" /\ cmd[c].pid \in Pids /\ cmd \in [Commands -> CmdType]
  BY DEF killRuntimeProcess, At, RuntimeTypes, PlaceOK, CmdType
<1>2. Without(cmd[c].pid)[c] = cmd[c]
  BY <1>1 DEF Without
<1>3. QED
  BY <1>1, <1>2 DEF killRuntimeProcess, End

\* What is left of the commands when the process p ends.
LEMMA WithoutForm ==
    ASSUME RuntimeTypes, NEW p \in Pids
    PROVE  /\ Without(p) \in [Commands -> CmdType]
           /\ \A d \in Commands : PlaceOK(Without(p)[d])
           /\ \A d \in Commands :
                 \/ Without(p)[d] = cmd[d] /\ (cmd[d].kind = "foreground" => cmd[d].pid # p)
                 \/ Without(p)[d] = Idle /\ cmd[d].kind = "foreground" /\ cmd[d].pid = p
<1>1. cmd \in [Commands -> CmdType] /\ \A d \in Commands : PlaceOK(cmd[d])
  BY DEF RuntimeTypes
<1>2. \A d \in Commands : Without(p)[d] = IF cmd[d].kind = "foreground" /\ cmd[d].pid = p /\ cmd[d].step # "idle" THEN Idle ELSE cmd[d]
  BY DEF Without
<1>3. Idle \in CmdType /\ PlaceOK(Idle)
  BY RuntimeAssumption DEF CmdType, Kinds, Steps, PlaceOK, Idle, Starts
<1>4. Without(p) \in [Commands -> CmdType] /\ \A d \in Commands : PlaceOK(Without(p)[d])
  BY <1>1, <1>2, <1>3 DEF Without
<1>5. \A d \in Commands : cmd[d].kind = "foreground" => cmd[d].step # "idle"
  BY <1>1 DEF PlaceOK, Idle
<1>6. QED
  BY <1>2, <1>4, <1>5

\* Commands keep the types, and the step they are at fits their kind.
LEMMA RuntimeTypesStep ==
    ASSUME RuntimeTypes, NEW c \in Commands, CommandStep(c)
    PROVE  RuntimeTypes'
<1>1. cmd[c] \in CmdType /\ PlaceOK(cmd[c]) /\ PlaceOK(Idle) /\ Idle \in CmdType
  BY PlaceOf
<1> USE DEF RuntimeTypes, Goto, End, At, Gone, Probe, StopServing
<1>2. CASE Begin(c)
  <2>1. PICK k \in Starts \cup {"stop"} : cmd' = [cmd EXCEPT ![c] = [kind |-> k, step |-> "read", pid |-> NoPid]]
    BY <1>2 DEF Begin
  <2>2. [kind |-> k, step |-> "read", pid |-> NoPid] \in CmdType /\ PlaceOK([kind |-> k, step |-> "read", pid |-> NoPid])
    BY DEF CmdType, Kinds, Steps, PlaceOK, Starts
  <2>3. interrupt' \in BOOLEAN
    BY <1>2 DEF Begin
  <2>4. QED
    BY <1>2, <2>1, <2>2, <2>3 DEF Begin
<1>3. CASE prepareLocalRuntime(c)
  <2> USE DEF CmdType, Kinds, Steps, PlaceOK, Starts, Idle
  <2>1. PICK t \in {"launch", "probe", "forget", "idle"} :
           /\ cmd' = [cmd EXCEPT ![c] = IF t = "idle" THEN Idle ELSE [cmd[c] EXCEPT !.step = t]]
           /\ cmd[c].kind \in Starts /\ cmd[c].step \in {"read", "probe", "forget"}
    BY <1>3 DEF prepareLocalRuntime
  <2>2. /\ record' \in {record, NoPid} /\ interrupt' \in BOOLEAN
        /\ UNCHANGED <<process, keys, recycled, killed, disowned>>
    BY <1>3 DEF prepareLocalRuntime
  <2>3. QED
    BY <1>1, <2>1, <2>2
<1>4. CASE Launch(c)
  BY <1>1, <1>4, RuntimeAssumption DEF Launch, CmdType, Kinds, Steps, PlaceOK, Starts, Runtime, Idle
<1>5. CASE writeLocalRuntimeState(c)
  BY <1>1, <1>5 DEF writeLocalRuntimeState, CmdType, Kinds, Steps, PlaceOK, Starts, Runtime, Idle
<1>6. CASE waitForRuntimeHealth(c)
  BY <1>1, <1>6 DEF waitForRuntimeHealth, CmdType, Kinds, Steps, PlaceOK, Starts, Runtime, Idle
<1>7. CASE HealthTimeout(c)
  BY <1>1, <1>7 DEF HealthTimeout, CmdType, Kinds, Steps, PlaceOK, Starts, Runtime, Idle
<1>8. CASE ForegroundEnds(c)
  BY <1>1, <1>8 DEF ForegroundEnds, CmdType, Kinds, Steps, PlaceOK, Starts, Runtime, Idle
<1>9. CASE clearLocalRuntimeState(c)
  BY <1>1, <1>9 DEF clearLocalRuntimeState, CmdType, Kinds, Steps, PlaceOK, Starts, Runtime, Idle
<1>10. CASE StopRead(c)
  BY <1>1, <1>10 DEF StopRead, CmdType, Kinds, Steps, PlaceOK, Starts, Runtime, Idle
<1>11. CASE StopVerify(c)
  <2> USE DEF CmdType, Kinds, Steps, PlaceOK, Starts, Idle
  <2>1. PICK t \in {"kill", "clear"} :
           cmd' = [cmd EXCEPT ![c] = [cmd[c] EXCEPT !.step = t]] /\ cmd[c].kind = "stop" /\ cmd[c].step = "verify"
    BY <1>11 DEF StopVerify
  <2>2. /\ interrupt' \in BOOLEAN /\ disowned' \in BOOLEAN
        /\ UNCHANGED <<process, keys, record, recycled, killed>>
    BY <1>11 DEF StopVerify
  <2>3. QED
    BY <1>1, <2>1, <2>2
<1>12. CASE killRuntimeProcess(c)
  <2> USE DEF CmdType, Kinds, Steps, PlaceOK, Starts, Idle
  <2>1. CASE process[cmd[c].pid] = "free"
    BY <1>1, <1>12, <2>1 DEF killRuntimeProcess
  <2>2. CASE process[cmd[c].pid] # "free"
    <3>1. Without(cmd[c].pid) \in [Commands -> CmdType] /\ \A d \in Commands : PlaceOK(Without(cmd[c].pid)[d])
      BY <1>1 DEF Without
    <3>2. Without(cmd[c].pid)[c] = cmd[c]
      BY <1>12 DEF killRuntimeProcess, Without
    <3>3. /\ cmd' = [Without(cmd[c].pid) EXCEPT ![c] = [cmd[c] EXCEPT !.step = "gone"]]
          /\ cmd[c].kind = "stop" /\ cmd[c].step = "kill" /\ killed' \in BOOLEAN
          /\ recycled' \subseteq Commands /\ process' = [process EXCEPT ![cmd[c].pid] = "free"]
          /\ UNCHANGED <<keys, record, interrupt, disowned>>
      BY <1>12, <2>2, <3>2 DEF killRuntimeProcess
    <3>4. cmd' \in [Commands -> CmdType] /\ \A d \in Commands : PlaceOK(cmd'[d])
      BY <1>1, <3>1, <3>3
    <3>5. QED
      BY <3>3, <3>4
  <2>3. QED
    BY <2>1, <2>2
<1>13. CASE StopWait(c)
  BY <1>1, <1>13 DEF StopWait, CmdType, Kinds, Steps, PlaceOK, Starts, Runtime, Idle
<1>14. CASE Interrupted(c)
  BY <1>1, <1>14 DEF Interrupted, CmdType, Kinds, Steps, PlaceOK, Starts, Runtime, Idle
<1>15. QED
  BY <1>2, <1>3, <1>4, <1>5, <1>6, <1>7, <1>8, <1>9, <1>10, <1>11, <1>12, <1>13, <1>14 DEF CommandStep

\* A command that changes neither processes nor histories keeps its pid or drops it.
LEMMA QuietStep ==
    ASSUME RuntimeTypes, OwnInv, OneServer, KillInv, NEW c \in Commands,
           UNCHANGED <<process, killed, recycled>>, cmd' = [cmd EXCEPT ![c] = cmd'[c]],
           cmd'[c].kind \in Starts =>
              cmd'[c].kind = cmd[c].kind /\ cmd'[c].pid \in {NoPid, cmd[c].pid},
           cmd'[c].step = "kill" => process[cmd'[c].pid] \in Runtime
    PROVE  OwnInv' /\ OneServer' /\ KillInv'
<1>1. \A d \in Commands : d # c => cmd'[d] = cmd[d]
  BY DEF RuntimeTypes
<1>2. OwnInv'
  BY <1>1 DEF OwnInv, Starts
<1>3. OneServer'
  BY DEF OneServer
<1>4. KillInv'
  BY <1>1 DEF KillInv
<1>5. QED
  BY <1>2, <1>3, <1>4

\* prepareLocalRuntime and StopVerify only move on.
LEMMA MoveOnStep ==
    ASSUME RuntimeTypes, OwnInv, OneServer, KillInv, NEW c \in Commands,
           prepareLocalRuntime(c) \/ StopVerify(c)
    PROVE  OwnInv' /\ OneServer' /\ KillInv'
<1>1. cmd[c] \in CmdType /\ cmd \in [Commands -> CmdType]
  BY PlaceOf DEF RuntimeTypes
<1>2. CASE prepareLocalRuntime(c)
  <2>1. PICK t \in {"launch", "probe", "forget", "idle"} :
           cmd' = [cmd EXCEPT ![c] = IF t = "idle" THEN Idle ELSE [cmd[c] EXCEPT !.step = t]]
    BY <1>2, PrepareForm
  <2>2. /\ cmd' = [cmd EXCEPT ![c] = cmd'[c]]
        /\ cmd'[c].kind \in Starts => cmd'[c].kind = cmd[c].kind /\ cmd'[c].pid = cmd[c].pid
        /\ cmd'[c].step # "kill"
    BY <1>1, <2>1 DEF CmdType, Idle, Starts
  <2>3. UNCHANGED <<process, killed, recycled>>
    BY <1>2, PrepareForm
  <2>4. QED
    BY <2>2, <2>3, QuietStep
<1>3. CASE StopVerify(c)
  <2>1. PICK t \in {"kill", "clear"} :
           /\ cmd' = [cmd EXCEPT ![c] = [cmd[c] EXCEPT !.step = t]]
           /\ t = "kill" => process[cmd[c].pid] \in Runtime
    BY <1>3, VerifyForm
  <2>2. /\ cmd' = [cmd EXCEPT ![c] = cmd'[c]] /\ cmd'[c].kind = "stop"
        /\ cmd'[c].step = "kill" => process[cmd'[c].pid] \in Runtime
    BY <1>1, <1>3, <2>1, VerifyForm DEF CmdType
  <2>3. UNCHANGED <<process, killed, recycled>>
    BY <1>3, VerifyForm
  <2>4. QED
    BY <2>2, <2>3, QuietStep DEF Starts
<1>4. QED
  BY <1>2, <1>3

\* A kill ends the foreground start that is the killed process, and no other command.
LEMMA KillStep ==
    ASSUME RuntimeTypes, OwnInv, OneServer, KillInv, NEW c \in Commands, killRuntimeProcess(c)
    PROVE  OwnInv' /\ OneServer' /\ KillInv'
<1> DEFINE p == cmd[c].pid
<1>1. cmd[c] \in CmdType /\ cmd \in [Commands -> CmdType] /\ p \in Pids
  BY PlaceOf, KillForm DEF RuntimeTypes
<1>2. CASE process[p] = "free"
  <2>1. cmd' = [cmd EXCEPT ![c] = Idle] /\ UNCHANGED <<process, killed, recycled>>
    BY <1>2 DEF killRuntimeProcess, End
  <2>2. cmd' = [cmd EXCEPT ![c] = cmd'[c]] /\ cmd'[c].kind \notin Starts /\ cmd'[c].step # "kill"
    BY <1>1, <2>1 DEF Idle, Starts
  <2>3. QED
    BY <2>1, <2>2, QuietStep
<1>3. CASE process[p] # "free"
  <2>1. /\ cmd' = [Without(p) EXCEPT ![c] = [cmd[c] EXCEPT !.step = "gone"]]
        /\ process' = [process EXCEPT ![p] = "free"]
        /\ recycled' = recycled \cup {d \in Commands : At(d, {"stop"}, "kill") /\ cmd[d].pid = p}
        /\ killed' = (killed \/ (process[p] = "foreign" /\ c \notin recycled))
        /\ cmd[c].step = "kill" /\ cmd[c].kind = "stop"
    BY <1>3, KillForm DEF Gone
  <2>2. /\ Without(p) \in [Commands -> CmdType]
        /\ \A d \in Commands :
              \/ Without(p)[d] = cmd[d] /\ (cmd[d].kind = "foreground" => cmd[d].pid # p)
              \/ Without(p)[d] = Idle /\ cmd[d].kind = "foreground" /\ cmd[d].pid = p
    BY <1>1, WithoutForm
  <2>3. /\ cmd'[c].kind = "stop" /\ cmd'[c].step = "gone"
        /\ \A d \in Commands : d # c =>
              \/ cmd'[d] = cmd[d] /\ (cmd[d].kind = "foreground" => cmd[d].pid # p)
              \/ cmd'[d] = Idle
    BY <1>1, <2>1, <2>2 DEF CmdType
  <2>4. OwnInv'
    BY <1>1, <2>1, <2>3 DEF OwnInv, RuntimeTypes, Starts, Idle, CmdType
  <2>5. OneServer'
    BY <1>1, <2>1 DEF OneServer, RuntimeTypes
  <2>6. KillInv'
    <3>1. \A d \in Commands : cmd'[d].step = "kill" /\ d \notin recycled' =>
             d # c /\ cmd'[d] = cmd[d] /\ cmd[d].pid # p
      BY <2>1, <2>3 DEF RuntimeTypes, PlaceOK, Idle, At
    <3>2. \A d \in Commands : cmd'[d].step = "kill" /\ d \notin recycled' =>
             process'[cmd'[d].pid] \in Runtime
      BY <1>1, <2>1, <3>1 DEF KillInv, RuntimeTypes
    <3>3. ~killed'
      BY <1>1, <2>1 DEF KillInv, Runtime
    <3>4. QED
      BY <3>2, <3>3 DEF KillInv
  <2>7. QED
    BY <2>4, <2>5, <2>6
<1>4. QED
  BY <1>2, <1>3

\* The parts of the invariant that hold whatever the commands do to each other.
LEMMA SafeStep ==
    ASSUME RuntimeTypes, OwnInv, OneServer, KillInv, NEW c \in Commands, CommandStep(c)
    PROVE  OwnInv' /\ OneServer' /\ KillInv'
<1>1. cmd[c] \in CmdType /\ PlaceOK(cmd[c]) /\ cmd \in [Commands -> CmdType]
  BY PlaceOf DEF RuntimeTypes
<1> USE RuntimeAssumption DEF RuntimeTypes, CmdType, PlaceOK, Starts, Runtime, Idle
<1>2. CASE Begin(c)
  <2>1. PICK k \in Starts \cup {"stop"} :
           cmd' = [cmd EXCEPT ![c] = [kind |-> k, step |-> "read", pid |-> NoPid]]
    BY <1>2 DEF Begin
  <2>2. UNCHANGED <<process, record, killed>> /\ recycled' = recycled \ {c}
    BY <1>2 DEF Begin
  <2>3. OwnInv' /\ OneServer'
    BY <1>1, <2>1, <2>2 DEF OwnInv, OneServer
  <2>4. KillInv'
    BY <1>1, <2>1, <2>2 DEF KillInv
  <2>5. QED
    BY <2>3, <2>4
<1>3. CASE Launch(c)
  <2>1. OwnInv'
    BY <1>1, <1>3 DEF Launch, OwnInv, Held, Active, Goto, End, At, Gone, StopServing
  <2>2. OneServer'
    BY <1>1, <1>3 DEF Launch, OneServer, Goto, End, At, Gone, StopServing
  <2>3. KillInv'
    BY <1>1, <1>3 DEF Launch, KillInv, Goto, End, At, Gone, StopServing
  <2>4. QED
    BY <2>1, <2>2, <2>3
<1>4. CASE writeLocalRuntimeState(c)
  <2>1. OwnInv'
    BY <1>1, <1>4 DEF writeLocalRuntimeState, OwnInv, Held, Active, Goto, End, At, Gone, StopServing
  <2>2. OneServer'
    BY <1>1, <1>4 DEF writeLocalRuntimeState, OneServer, Goto, End, At, Gone, StopServing
  <2>3. KillInv'
    BY <1>1, <1>4 DEF writeLocalRuntimeState, KillInv, Goto, End, At, Gone, StopServing
  <2>4. QED
    BY <2>1, <2>2, <2>3
<1>5. CASE waitForRuntimeHealth(c)
  <2>1. OwnInv'
    BY <1>1, <1>5 DEF waitForRuntimeHealth, OwnInv, Held, Active, Goto, End, At, Gone, StopServing
  <2>2. OneServer'
    BY <1>1, <1>5 DEF waitForRuntimeHealth, OneServer, Goto, End, At, Gone, StopServing
  <2>3. KillInv'
    BY <1>1, <1>5 DEF waitForRuntimeHealth, KillInv, Goto, End, At, Gone, StopServing
  <2>4. QED
    BY <2>1, <2>2, <2>3
<1>6. CASE HealthTimeout(c)
  <2>1. OwnInv'
    BY <1>1, <1>6 DEF HealthTimeout, OwnInv, Held, Active, Goto, End, At, Gone, StopServing
  <2>2. OneServer'
    BY <1>1, <1>6 DEF HealthTimeout, OneServer, Goto, End, At, Gone, StopServing
  <2>3. KillInv'
    BY <1>1, <1>6 DEF HealthTimeout, KillInv, Goto, End, At, Gone, StopServing
  <2>4. QED
    BY <2>1, <2>2, <2>3
<1>7. CASE ForegroundEnds(c)
  <2>1. OwnInv'
    BY <1>1, <1>7 DEF ForegroundEnds, OwnInv, Held, Active, Goto, End, At, Gone, StopServing
  <2>2. OneServer'
    BY <1>1, <1>7 DEF ForegroundEnds, OneServer, Goto, End, At, Gone, StopServing
  <2>3. KillInv'
    BY <1>1, <1>7 DEF ForegroundEnds, KillInv, Goto, End, At, Gone, StopServing
  <2>4. QED
    BY <2>1, <2>2, <2>3
<1>8. CASE clearLocalRuntimeState(c)
  <2>1. OwnInv'
    BY <1>1, <1>8 DEF clearLocalRuntimeState, OwnInv, Held, Active, Goto, End, At, Gone, StopServing
  <2>2. OneServer'
    BY <1>1, <1>8 DEF clearLocalRuntimeState, OneServer, Goto, End, At, Gone, StopServing
  <2>3. KillInv'
    BY <1>1, <1>8 DEF clearLocalRuntimeState, KillInv, Goto, End, At, Gone, StopServing
  <2>4. QED
    BY <2>1, <2>2, <2>3
<1>9. CASE StopRead(c)
  <2>1. OwnInv'
    BY <1>1, <1>9 DEF StopRead, OwnInv, Held, Active, Goto, End, At, Gone, StopServing
  <2>2. OneServer'
    BY <1>1, <1>9 DEF StopRead, OneServer, Goto, End, At, Gone, StopServing
  <2>3. KillInv'
    BY <1>1, <1>9 DEF StopRead, KillInv, Goto, End, At, Gone, StopServing
  <2>4. QED
    BY <2>1, <2>2, <2>3
<1>10. CASE StopWait(c)
  <2>1. OwnInv'
    BY <1>1, <1>10 DEF StopWait, OwnInv, Held, Active, Goto, End, At, Gone, StopServing
  <2>2. OneServer'
    BY <1>1, <1>10 DEF StopWait, OneServer, Goto, End, At, Gone, StopServing
  <2>3. KillInv'
    BY <1>1, <1>10 DEF StopWait, KillInv, Goto, End, At, Gone, StopServing
  <2>4. QED
    BY <2>1, <2>2, <2>3
<1>11. CASE Interrupted(c)
  <2>1. OwnInv'
    BY <1>1, <1>11 DEF Interrupted, OwnInv, Held, Active, Goto, End, At, Gone, StopServing
  <2>2. OneServer'
    BY <1>1, <1>11 DEF Interrupted, OneServer, Goto, End, At, Gone, StopServing
  <2>3. KillInv'
    BY <1>1, <1>11 DEF Interrupted, KillInv, Goto, End, At, Gone, StopServing
  <2>4. QED
    BY <2>1, <2>2, <2>3
<1>12. QED
  BY <1>2, <1>3, <1>4, <1>5, <1>6, <1>7, <1>8, <1>9, <1>10, <1>11, MoveOnStep, KillStep DEF CommandStep

\* The conclusion of OrderInv.
Ordered ==
    /\ \A c, d \in Commands : Active(c) /\ Active(d) => c = d
    /\ \A c \in Commands : Place(c)
    /\ (\A c \in Commands : ~Active(c)) => Settled

\* A step of the only active command: the others are idle or run a server.
LEMMA SoloStep ==
    ASSUME NEW c \in Commands, \A d \in Commands : d # c => ~Active(d),
           \A d \in Commands : d # c => cmd'[d] = cmd[d] \/ cmd'[d] = Idle,
           \A d \in Commands : d # c /\ cmd'[d].step = "running" => process'[cmd'[d].pid] = "serving",
           Place(c)', ~Active(c)' => Settled'
    PROVE  Ordered'
<1>1. \A d \in Commands : d # c => cmd'[d].step \in {"idle", "running"}
  BY DEF Active, Idle
<1>2. \A d \in Commands : d # c => ~Active(d)'
  BY <1>1 DEF Active
<1>3. \A d \in Commands : d # c => Place(d)'
  BY <1>1 DEF Place
<1>4. QED
  BY <1>2, <1>3 DEF Ordered

\* Nothing serves exactly if no process is live, where none is starting.
LEMMA NotListening ==
    ASSUME Settled, ~Listening
    PROVE  Live = {}
  BY DEF Settled, Listening, Live

\* While nothing interfered, a step of a command finds what the previous one left.
LEMMA OrderStep ==
    ASSUME RuntimeInv, NEW c \in Commands, CommandStep(c)
    PROVE  OrderInv'
<1> SUFFICES ASSUME ~interrupt', ~disowned' PROVE Ordered'
  BY DEF OrderInv, Ordered
<1>1. cmd[c] \in CmdType /\ PlaceOK(cmd[c]) /\ cmd \in [Commands -> CmdType] /\ PlaceOK(Idle) /\ Idle \in CmdType
  BY PlaceOf DEF RuntimeInv, RuntimeTypes
<1>2. ~interrupt /\ ~disowned
  <2>1. interrupt => interrupt'
    BY PrepareForm, VerifyForm DEF CommandStep, Begin, Launch, writeLocalRuntimeState,
       waitForRuntimeHealth, HealthTimeout, ForegroundEnds, clearLocalRuntimeState, StopRead,
       killRuntimeProcess, StopWait, Interrupted
  <2>2. disowned => disowned'
    BY PrepareForm, VerifyForm DEF CommandStep, Begin, Launch, writeLocalRuntimeState,
       waitForRuntimeHealth, HealthTimeout, ForegroundEnds, clearLocalRuntimeState, StopRead,
       killRuntimeProcess, StopWait, Interrupted
  <2>3. QED
    BY <2>1, <2>2
<1>3. Ordered
  BY <1>2 DEF RuntimeInv, OrderInv, Ordered
<1>4. \A d \in Commands : d # c => ~Active(d)
  <2>1. CASE Active(c)
    BY <1>3, <2>1 DEF Ordered
  <2>2. CASE ~Active(c)
    <3>1. Begin(c) \/ ForegroundEnds(c)
      BY <2>2 DEF CommandStep, Active, prepareLocalRuntime, Launch, writeLocalRuntimeState,
       waitForRuntimeHealth, HealthTimeout, clearLocalRuntimeState, StopRead, StopVerify,
       killRuntimeProcess, StopWait, Interrupted, At
    <3>2. QED
      BY <3>1 DEF Begin, ForegroundEnds
  <2>3. QED
    BY <2>1, <2>2
<1>5. \A d \in Commands : d # c /\ cmd[d].step = "running" =>
         process[cmd[d].pid] = "serving" /\ cmd[d].kind = "foreground" /\ cmd[d].pid \in Pids
  BY <1>3 DEF Ordered, Place, RuntimeInv, RuntimeTypes, PlaceOK, CmdType
<1>6. Place(c)
  BY <1>3 DEF Ordered
<1>7. ~Active(c) => Settled
  BY <1>3, <1>4 DEF Ordered
<1>8. ASSUME \A d \in Commands : d # c => cmd'[d] = cmd[d], process' = process,
             Place(c)', ~Active(c)' => Settled'
      PROVE  Ordered'
  BY <1>4, <1>5, <1>8, SoloStep
<1>9. ASSUME NEW p \in Pids, NEW v, process' = [process EXCEPT ![p] = v],
             \A d \in Commands : d # c => cmd'[d] = cmd[d],
             process[p] # "serving" \/ (cmd[c].kind \in Starts /\ cmd[c].pid = p),
             Place(c)', ~Active(c)' => Settled'
      PROVE  Ordered'
  <2>1. \A d \in Commands : d # c /\ cmd[d].step = "running" => process'[cmd[d].pid] = "serving"
    BY <1>5, <1>9, RuntimeAssumption DEF RuntimeInv, RuntimeTypes, OwnInv, Starts
  <2>2. QED
    BY <1>4, <1>9, <2>1, SoloStep
<1> USE RuntimeAssumption DEF CmdType, PlaceOK, Idle
<1>10. CASE Begin(c)
  <2>1. PICK k \in Starts \cup {"stop"} :
           cmd' = [cmd EXCEPT ![c] = [kind |-> k, step |-> "read", pid |-> NoPid]]
    BY <1>10 DEF Begin
  <2>2. UNCHANGED <<process, record>> /\ Settled
    BY <1>7, <1>10 DEF Begin, Active
  <2>3. cmd'[c].step = "read" /\ \A d \in Commands : d # c => cmd'[d] = cmd[d]
    BY <1>1, <2>1
  <2>4. Settled'
    BY <2>2 DEF Settled, Live
  <2>5. QED
    BY <1>8, <2>2, <2>3, <2>4 DEF Place
<1>11. CASE prepareLocalRuntime(c)
  <2>1. /\ process' = process /\ \A d \in Commands : d # c => cmd'[d] = cmd[d]
        /\ Live' = Live
    BY <1>1, <1>11, PrepareForm DEF Live
  <2>2. CASE cmd[c].step = "read" /\ cmd'[c].step = "launch" /\ record = NoPid
    <3>1. Live = {}
      BY <1>6, <2>2 DEF Place, Settled, Live
    <3>2. QED
      BY <1>8, <2>1, <2>2, <3>1 DEF Place, Active
  <2>3. CASE cmd[c].step = "read" /\ cmd'[c].step = "probe" /\ record' = record
    BY <1>6, <1>8, <2>1, <2>3 DEF Place, Settled, Active
  <2>4. CASE cmd[c].step = "probe" /\ cmd'[c] = Idle /\ record' = record
    BY <1>6, <1>8, <2>1, <2>4 DEF Place, Settled, Active
  <2>5. CASE cmd[c].step = "probe" /\ cmd'[c].step = "forget" /\ ~Listening
    <3>1. Live = {}
      BY <1>6, <2>5, NotListening DEF Place
    <3>2. QED
      BY <1>8, <2>1, <2>5, <3>1 DEF Place, Active
  <2>6. CASE cmd[c].step = "forget" /\ cmd'[c].step = "launch"
    BY <1>6, <1>8, <2>1, <2>6 DEF Place, Active
  <2>7. \A t \in Steps : cmd' = [cmd EXCEPT ![c] = [@ EXCEPT !.step = t]] => cmd'[c].step = t
    BY <1>1
  <2>8. cmd' = [cmd EXCEPT ![c] = Idle] => cmd'[c] = Idle
    BY <1>1
  <2>9. QED
    BY <1>11, <2>2, <2>3, <2>4, <2>5, <2>6, <2>7, <2>8, PrepareForm DEF Steps
<1>12. CASE Launch(c)
  <2>1. PICK p \in Pids : /\ process[p] = "free" /\ process' = [process EXCEPT ![p] = "starting"]
                          /\ cmd' = [cmd EXCEPT ![c].pid = p, ![c].step = "write"]
    BY <1>12 DEF Launch
  <2>2. /\ cmd'[c].step = "write" /\ cmd'[c].pid = p
        /\ \A d \in Commands : d # c => cmd'[d] = cmd[d]
    BY <1>1, <2>1
  <2>3. Live = {}
    BY <1>6, <1>12 DEF Place, Launch, At
  <2>4. Live' \subseteq {p}
    BY <2>1, <2>3 DEF Live, RuntimeInv, RuntimeTypes
  <2>5. Place(c)' /\ Active(c)'
    BY <2>2, <2>4 DEF Place, Active
  <2>6. QED
    BY <1>9, <2>1, <2>2, <2>5
<1>13. CASE writeLocalRuntimeState(c)
  <2>1. cmd[c].step = "write" /\ cmd[c].kind \in Starts /\ cmd[c].pid \in Pids /\ Live \subseteq {cmd[c].pid}
    BY <1>1, <1>6, <1>13 DEF writeLocalRuntimeState, At, Place
  <2>2. CASE process' = process /\ record' = cmd[c].pid /\ cmd' = [cmd EXCEPT ![c].step = "wait"]
    <3>1. /\ cmd'[c].step = "wait" /\ cmd'[c].pid = cmd[c].pid
          /\ \A d \in Commands : d # c => cmd'[d] = cmd[d]
      BY <1>1, <2>2
    <3>2. Place(c)' /\ Active(c)'
      BY <2>1, <2>2, <3>1 DEF Place, Active, Live
    <3>3. QED
      BY <1>8, <2>2, <3>1, <3>2
  <2>3. CASE process' = [process EXCEPT ![cmd[c].pid] = "free"] /\ cmd' = [cmd EXCEPT ![c] = Idle]
    <3>1. cmd'[c] = Idle /\ \A d \in Commands : d # c => cmd'[d] = cmd[d]
      BY <1>1, <2>3
    <3>2. Live' = {}
      BY <2>1, <2>3 DEF Live, RuntimeInv, RuntimeTypes
    <3>3. Place(c)' /\ Settled'
      BY <3>1, <3>2 DEF Place, Settled
    <3>4. QED
      BY <1>9, <2>1, <2>3, <3>1, <3>3
  <2>4. QED
    BY <1>13, <2>2, <2>3 DEF writeLocalRuntimeState, Gone, Goto, End
<1>14. CASE waitForRuntimeHealth(c)
  <2>1. /\ cmd[c].step = "wait" /\ cmd[c].kind \in Starts /\ cmd[c].pid \in Pids
        /\ Live \subseteq {cmd[c].pid} /\ record = cmd[c].pid /\ Listening /\ UNCHANGED <<process, record>>
    BY <1>1, <1>6, <1>14 DEF waitForRuntimeHealth, At, Place
  <2>2. process[cmd[c].pid] = "serving"
    BY <2>1 DEF Listening, Live
  <2>3. Settled'
    BY <2>1, <2>2 DEF Settled, Live
  <2>4. /\ cmd'[c] = Idle \/ (cmd'[c].step = "running" /\ cmd'[c].pid = cmd[c].pid)
        /\ \A d \in Commands : d # c => cmd'[d] = cmd[d]
    BY <1>1, <1>14 DEF waitForRuntimeHealth, Goto, End
  <2>5. Place(c)'
    BY <2>1, <2>2, <2>4 DEF Place
  <2>6. QED
    BY <1>8, <2>1, <2>3, <2>4, <2>5
<1>15. CASE HealthTimeout(c)
  <2>1. /\ cmd[c].step = "wait" /\ cmd[c].kind \in Starts /\ cmd[c].pid \in Pids
        /\ Live \subseteq {cmd[c].pid} /\ ~Listening
    BY <1>1, <1>6, <1>15 DEF HealthTimeout, At, Place
  <2>2. cmd'[c].step = "clear" /\ \A d \in Commands : d # c => cmd'[d] = cmd[d]
    BY <1>1, <1>15 DEF HealthTimeout, Goto
  <2>3. PICK v \in {"free", "failed", process[cmd[c].pid]} :
           process' = [process EXCEPT ![cmd[c].pid] = v] /\ v \notin {"starting", "serving"}
    BY <1>15, <2>1 DEF HealthTimeout, StopServing, Gone, Runtime, RuntimeInv, RuntimeTypes
  <2>4. Live' = {}
    BY <2>1, <2>3 DEF Live, RuntimeInv, RuntimeTypes
  <2>5. Place(c)' /\ Active(c)'
    BY <2>2, <2>4 DEF Place, Active
  <2>6. QED
    BY <1>9, <2>1, <2>2, <2>3, <2>5
<1>16. CASE ForegroundEnds(c)
  <2>1. /\ cmd[c].step = "running" /\ cmd[c].kind \in Starts /\ cmd[c].pid \in Pids
        /\ process[cmd[c].pid] = "serving" /\ Settled
    BY <1>1, <1>6, <1>7, <1>16 DEF ForegroundEnds, At, Place, Active, Starts
  <2>2. cmd'[c].step = "clear" /\ \A d \in Commands : d # c => cmd'[d] = cmd[d]
    BY <1>1, <1>16 DEF ForegroundEnds, Goto
  <2>3. process' = [process EXCEPT ![cmd[c].pid] = "failed"]
    BY <1>16 DEF ForegroundEnds, StopServing
  <2>4. Live' = {}
    BY <2>1, <2>3 DEF Live, Settled, RuntimeInv, RuntimeTypes, OneServer
  <2>5. Place(c)' /\ Active(c)'
    BY <2>2, <2>4 DEF Place, Active
  <2>6. QED
    BY <1>9, <2>1, <2>2, <2>3, <2>5
<1>17. CASE clearLocalRuntimeState(c)
  <2>1. cmd[c].step = "clear" /\ Live = {} /\ cmd[c].pid \in Pids
    BY <1>1, <1>6, <1>17 DEF clearLocalRuntimeState, Place
  <2>2. cmd'[c] = Idle /\ \A d \in Commands : d # c => cmd'[d] = cmd[d]
    BY <1>1, <1>17 DEF clearLocalRuntimeState, End
  <2>3. process' = process \/ process' = [process EXCEPT ![cmd[c].pid] = "free"]
    BY <1>17 DEF clearLocalRuntimeState, Gone
  <2>4. Live' = {}
    BY <2>1, <2>3 DEF Live, RuntimeInv, RuntimeTypes
  <2>5. Place(c)' /\ Settled'
    BY <2>2, <2>4 DEF Place, Settled
  <2>6. process[cmd[c].pid] # "serving"
    BY <2>1 DEF Live
  <2>7. QED
    BY <1>8, <1>9, <2>1, <2>2, <2>3, <2>5, <2>6
<1>18. CASE StopRead(c)
  <2>1. Settled /\ UNCHANGED <<process, record>>
    BY <1>6, <1>18 DEF StopRead, At, Place
  <2>2. /\ cmd'[c] = Idle \/ (cmd'[c].step = "verify" /\ cmd'[c].pid = record)
        /\ \A d \in Commands : d # c => cmd'[d] = cmd[d]
    BY <1>1, <1>18 DEF StopRead, End
  <2>3. Settled'
    BY <2>1 DEF Settled, Live
  <2>4. Place(c)'
    BY <2>1, <2>2, <2>3 DEF Place
  <2>5. QED
    BY <1>8, <2>1, <2>2, <2>3, <2>4
<1>19. CASE StopVerify(c)
  <2>1. /\ cmd[c].step = "verify" /\ Settled /\ record = cmd[c].pid
        /\ UNCHANGED <<process, record>> /\ Live' = Live
    BY <1>6, <1>19, VerifyForm DEF Place, Live
  <2>2. \A d \in Commands : d # c => cmd'[d] = cmd[d]
    BY <1>1, <1>19, VerifyForm
  <2>3. CASE cmd'[c].step = "kill" /\ cmd'[c].pid = cmd[c].pid
    <3>1. Settled' /\ Place(c)'
      BY <2>1, <2>3 DEF Place, Settled
    <3>2. QED
      BY <1>8, <2>1, <2>2, <3>1
  <2>4. CASE cmd'[c].step = "clear"
    <3>1. ~Listening \/ process[cmd[c].pid] \notin Runtime
      BY <1>1, <1>2, <1>19, <2>4, VerifyForm
    <3>2. Live = {}
      BY <2>1, <3>1, NotListening DEF Live, Settled, Runtime
    <3>3. Place(c)' /\ Active(c)'
      BY <2>1, <2>4, <3>2 DEF Place, Active
    <3>4. QED
      BY <1>8, <2>1, <2>2, <3>3
  <2>5. \A t \in Steps : cmd' = [cmd EXCEPT ![c] = [@ EXCEPT !.step = t]] =>
           cmd'[c].step = t /\ cmd'[c].pid = cmd[c].pid
    BY <1>1
  <2>6. QED
    BY <1>19, <2>3, <2>4, <2>5, VerifyForm DEF Steps
<1>20. CASE killRuntimeProcess(c)
  <2>1. /\ cmd[c].step = "kill" /\ Settled /\ record = cmd[c].pid /\ cmd[c].pid \in Pids
        /\ record' = record
    BY <1>6, <1>20, KillForm DEF Place, RuntimeInv
  <2>2. CASE cmd' = [cmd EXCEPT ![c] = Idle] /\ process' = process
    <3>1. cmd'[c] = Idle /\ \A d \in Commands : d # c => cmd'[d] = cmd[d]
      BY <1>1, <2>2
    <3>2. Settled' /\ Place(c)'
      BY <2>1, <2>2, <3>1 DEF Settled, Live, Place
    <3>3. QED
      BY <1>8, <2>2, <3>1, <3>2
  <2>3. CASE /\ Gone(cmd[c].pid)
             /\ cmd' = [Without(cmd[c].pid) EXCEPT ![c] = [cmd[c] EXCEPT !.step = "gone"]]
    <3>1. /\ Without(cmd[c].pid) \in [Commands -> CmdType]
          /\ \A d \in Commands :
                \/ Without(cmd[c].pid)[d] = cmd[d] /\ (cmd[d].kind = "foreground" => cmd[d].pid # cmd[c].pid)
                \/ Without(cmd[c].pid)[d] = Idle
      BY <2>1, WithoutForm DEF RuntimeInv
    <3>2. /\ cmd'[c].step = "gone"
          /\ \A d \in Commands : d # c =>
                \/ cmd'[d] = cmd[d] /\ (cmd[d].kind = "foreground" => cmd[d].pid # cmd[c].pid)
                \/ cmd'[d] = Idle
      BY <1>1, <2>3, <3>1
    <3>3. process' = [process EXCEPT ![cmd[c].pid] = "free"]
      BY <2>3 DEF Gone
    <3>4. Live' = {}
      BY <2>1, <3>3 DEF Live, Settled, RuntimeInv, RuntimeTypes
    <3>5. \A d \in Commands : d # c /\ cmd'[d].step = "running" => process'[cmd'[d].pid] = "serving"
      BY <1>5, <2>1, <3>2, <3>3 DEF RuntimeInv, RuntimeTypes
    <3>6. Place(c)' /\ Active(c)'
      BY <3>2, <3>4 DEF Place, Active
    <3>7. QED
      BY <1>4, <3>2, <3>5, <3>6, SoloStep
  <2>4. QED
    BY <1>20, <2>2, <2>3, KillForm DEF RuntimeInv
<1>21. CASE StopWait(c)
  <2>1. cmd[c].step = "gone" /\ Live = {} /\ UNCHANGED <<process, record>>
    BY <1>6, <1>21 DEF StopWait, At, Place
  <2>2. /\ cmd'[c] = Idle \/ cmd'[c].step = "clear"
        /\ \A d \in Commands : d # c => cmd'[d] = cmd[d]
    BY <1>1, <1>21 DEF StopWait, End, Goto
  <2>3. Live' = {}
    BY <2>1 DEF Live
  <2>4. Settled' /\ Place(c)'
    BY <2>2, <2>3 DEF Settled, Place
  <2>5. QED
    BY <1>8, <2>1, <2>2, <2>4
<1>22. CASE Interrupted(c)
  BY <1>22 DEF Interrupted
<1>23. QED
  BY <1>10, <1>11, <1>12, <1>13, <1>14, <1>15, <1>16, <1>17, <1>18, <1>19, <1>20, <1>21, <1>22
     DEF CommandStep

\* Serve, a crash, another program and a new key.
LEMMA ProcessStep ==
    ASSUME RuntimeInv, ConfigureKeys \/ \E p \in Pids : Serve(p) \/ Crash(p) \/ Foreign(p)
    PROVE  RuntimeInv'
<1>1. CASE ConfigureKeys
  <2>1. keys' = TRUE /\ UNCHANGED <<process, record, cmd, interrupt, recycled, killed, disowned>>
    BY <1>1 DEF ConfigureKeys
  <2>2. QED
    BY <2>1 DEF RuntimeInv, RuntimeTypes, OwnInv, OneServer, KillInv, OrderInv, Place, Settled, Live, Active
<1>2. ASSUME NEW p \in Pids, Serve(p) PROVE RuntimeInv'
  <2>1. PICK v \in {"failed", "serving"} :
          /\ process[p] = "starting" /\ process' = [process EXCEPT ![p] = v]
          /\ v = "serving" => ~Listening
          /\ UNCHANGED <<keys, record, cmd, interrupt, recycled, killed, disowned>>
    BY <1>2 DEF Serve
  <2>2. RuntimeTypes'
    BY <2>1 DEF RuntimeInv, RuntimeTypes, Runtime
  <2>3. OwnInv'
    BY <2>1 DEF RuntimeInv, RuntimeTypes, OwnInv, Runtime
  <2>4. OneServer'
    BY <2>1 DEF RuntimeInv, RuntimeTypes, OneServer, Listening
  <2>5. KillInv'
    BY <2>1 DEF RuntimeInv, RuntimeTypes, KillInv, Runtime
  <2>6. OrderInv'
    <3> SUFFICES ASSUME ~interrupt, ~disowned PROVE Ordered'
      BY <2>1 DEF OrderInv, Ordered
    <3>1. Ordered
      BY DEF RuntimeInv, OrderInv, Ordered
    <3>2. p \in Live /\ ~Settled /\ Live' \subseteq Live
      BY <2>1 DEF Live, Settled, RuntimeInv, RuntimeTypes
    <3>3. \A c \in Commands : Active(c)' <=> Active(c)
      BY <2>1 DEF Active
    <3>4. ASSUME NEW c \in Commands PROVE Place(c)'
      <4>1. Place(c)
        BY <3>1 DEF Ordered
      <4>2. QED
        BY <2>1, <3>2, <4>1 DEF Place, RuntimeInv, RuntimeTypes
    <3>5. QED
      BY <3>1, <3>2, <3>3, <3>4 DEF Ordered
  <2>7. QED
    BY <2>2, <2>3, <2>4, <2>5, <2>6 DEF RuntimeInv
<1>3. ASSUME NEW p \in Pids, Crash(p) PROVE RuntimeInv'
  <2>1. /\ process[p] \in Runtime /\ process' = [process EXCEPT ![p] = "free"] /\ cmd' = Without(p)
        /\ recycled' = recycled \cup {c \in Commands : At(c, {"stop"}, "kill") /\ cmd[c].pid = p}
        /\ UNCHANGED <<keys, record, interrupt, killed, disowned>>
    BY <1>3 DEF Crash, Gone
  <2>2. /\ cmd' \in [Commands -> CmdType] /\ \A d \in Commands : PlaceOK(cmd'[d])
        /\ \A d \in Commands :
              \/ cmd'[d] = cmd[d] /\ (cmd[d].kind = "foreground" => cmd[d].pid # p)
              \/ cmd'[d] = Idle /\ cmd[d].kind = "foreground" /\ cmd[d].pid = p
    BY <2>1, WithoutForm DEF RuntimeInv
  <2>3. RuntimeTypes'
    BY <2>1, <2>2 DEF RuntimeInv, RuntimeTypes
  <2>4. OwnInv'
    BY <2>1, <2>2 DEF RuntimeInv, RuntimeTypes, OwnInv, CmdType, Idle, Starts
  <2>5. OneServer'
    BY <2>1 DEF RuntimeInv, RuntimeTypes, OneServer
  <2>6. KillInv'
    <3>1. \A d \in Commands : cmd'[d].step = "kill" /\ d \notin recycled' =>
             cmd'[d] = cmd[d] /\ cmd[d].pid # p /\ cmd[d].pid \in Pids /\ d \notin recycled
      BY <2>1, <2>2 DEF RuntimeInv, RuntimeTypes, PlaceOK, CmdType, Idle, At
    <3>2. QED
      BY <2>1, <3>1 DEF RuntimeInv, RuntimeTypes, KillInv
  <2>7. OrderInv'
    <3> SUFFICES ASSUME ~interrupt, ~disowned PROVE Ordered'
      BY <2>1 DEF OrderInv, Ordered
    <3>1. Ordered
      BY DEF RuntimeInv, OrderInv, Ordered
    <3>2. Live' = Live \ {p} /\ \A q \in Live' : process'[q] = process[q]
      BY <2>1 DEF Live, RuntimeInv, RuntimeTypes
    <3>3. Settled => Settled'
      BY <2>1, <3>2 DEF Settled
    <3>4. \A c \in Commands : Active(c)' => Active(c)
      BY <2>2 DEF Active, Idle
    <3>5. ASSUME NEW c \in Commands PROVE Place(c)'
      <4>1. Place(c) /\ cmd[c] \in CmdType /\ PlaceOK(cmd[c])
        BY <3>1, PlaceOf DEF Ordered, RuntimeInv
      <4>2. CASE cmd'[c] = Idle
        BY <4>2 DEF Place, Idle
      <4>3. CASE cmd'[c] = cmd[c] /\ (cmd[c].kind = "foreground" => cmd[c].pid # p)
        <5>1. cmd[c].step = "running" => cmd[c].pid \in Pids /\ cmd[c].pid # p
          BY <4>1, <4>3 DEF PlaceOK, CmdType
        <5>2. cmd[c].step = "running" => process'[cmd[c].pid] = "serving"
          BY <2>1, <4>1, <5>1 DEF Place, RuntimeInv, RuntimeTypes
        <5>3. QED
          BY <2>1, <3>2, <3>3, <4>1, <4>3, <5>2 DEF Place
      <4>4. QED
        BY <2>2, <4>2, <4>3
    <3>6. ASSUME \A c \in Commands : ~Active(c)' PROVE Settled'
      <4>1. CASE \A c \in Commands : ~Active(c)
        BY <3>1, <3>3, <4>1 DEF Ordered
      <4>2. CASE \E c \in Commands : Active(c)
        <5>1. PICK c \in Commands : Active(c)
          BY <4>2
        <5>2. cmd'[c] = Idle /\ cmd[c].kind = "foreground" /\ cmd[c].pid = p
          BY <2>2, <3>6, <5>1 DEF Active
        <5>3. cmd[c].step \in {"write", "wait", "clear"}
          BY <5>1, <5>2, RuntimeAssumption, PlaceOf DEF RuntimeInv, PlaceOK, Active, CmdType, Steps, Starts
        <5>4. Live \subseteq {p}
          BY <3>1, <5>2, <5>3 DEF Ordered, Place
        <5>5. QED
          BY <3>2, <5>4 DEF Settled
      <4>3. QED
        BY <4>1, <4>2
    <3>7. QED
      BY <3>1, <3>4, <3>5, <3>6 DEF Ordered
  <2>8. QED
    BY <2>3, <2>4, <2>5, <2>6, <2>7 DEF RuntimeInv
<1>4. ASSUME NEW p \in Pids, Foreign(p) PROVE RuntimeInv'
  <2>1. PICK v \in {"free", "foreign"} :
        /\ process[p] \in {"free", "foreign"} /\ process' = [process EXCEPT ![p] = v]
        /\ UNCHANGED <<keys, record, cmd, interrupt, killed, disowned>>
        /\ recycled \subseteq recycled' /\ recycled' \subseteq Commands
    BY <1>4 DEF Foreign, Gone, RuntimeInv, RuntimeTypes
  <2>2. RuntimeTypes'
    BY <2>1 DEF RuntimeInv, RuntimeTypes
  <2>3. OwnInv' /\ OneServer'
    BY <2>1 DEF RuntimeInv, RuntimeTypes, OwnInv, OneServer, Runtime
  <2>4. KillInv'
    BY <2>1 DEF RuntimeInv, RuntimeTypes, KillInv, Runtime
  <2>5. Live' = Live /\ \A q \in Pids : q # p => process'[q] = process[q]
    BY <2>1 DEF Live, RuntimeInv, RuntimeTypes
  <2>6. Settled => Settled'
    BY <2>1, <2>5 DEF Settled, Live
  <2>7. \A c \in Commands : Place(c) => Place(c)'
    BY <2>1, <2>5, <2>6 DEF Place, RuntimeInv, RuntimeTypes
  <2>8. OrderInv'
    BY <2>1, <2>6, <2>7 DEF RuntimeInv, OrderInv, Active
  <2>9. QED
    BY <2>2, <2>3, <2>4, <2>8 DEF RuntimeInv
<1>5. QED
  BY <1>1, <1>2, <1>3, <1>4

\* Every step of a command, of a process or of the system keeps the invariant.
LEMMA RuntimeStepInv == RuntimeInv /\ [RNext]_rvars => RuntimeInv'
<1> SUFFICES ASSUME RuntimeInv, [RNext]_rvars PROVE RuntimeInv'
  OBVIOUS
<1>1. ASSUME NEW c \in Commands, CommandStep(c) PROVE RuntimeInv'
  BY <1>1, RuntimeTypesStep, SafeStep, OrderStep DEF RuntimeInv
<1>2. CASE RNext
  BY <1>1, <1>2, ProcessStep DEF RNext, CommandStep
<1>3. CASE UNCHANGED rvars
  BY <1>3 DEF rvars, RuntimeInv, RuntimeTypes, OwnInv, OneServer, KillInv, OrderInv, Place, Settled, Live, Active
<1>4. QED
  BY <1>2, <1>3

\* The invariant of the local runtime holds before the first command.
LEMMA RuntimeInitInv == RInit => RuntimeInv
<1> SUFFICES ASSUME RInit PROVE RuntimeInv
  OBVIOUS
<1>1. RuntimeTypes
  BY RuntimeAssumption DEF RInit, RuntimeTypes, CmdType, Kinds, Steps, PlaceOK, Idle, Starts
<1>2. OwnInv /\ OneServer /\ KillInv
  BY DEF RInit, OwnInv, OneServer, KillInv, Idle
<1>3. OrderInv
  BY DEF RInit, OrderInv, Place, Settled, Live, Active, Idle
<1>4. QED
  BY <1>1, <1>2, <1>3 DEF RuntimeInv

\* For any number of commands and pids: one runtime serves at most, between
\* undisturbed commands it is the recorded one, and stop kills no other program
\* unless the pid changed hands after the verification (RuntimeIsKnown).
THEOREM RuntimeKnown == RSpec => []RuntimeIsKnown
<1>1. RuntimeInv => RuntimeIsKnown
  <2> SUFFICES ASSUME RuntimeInv PROVE RuntimeIsKnown
    OBVIOUS
  <2>1. RTypeOK
    BY RuntimeAssumption DEF RuntimeInv, RuntimeTypes, PlaceOK, OwnInv, OneServer, RTypeOK
  <2>2. ServingIsRecorded
    BY DEF RuntimeInv, OrderInv, Settled, Live, ServingIsRecorded
  <2>3. QED
    BY <2>1, <2>2 DEF RuntimeInv, KillInv, StopKillsViaduct, RuntimeIsKnown
<1>2. QED
  BY <1>1, RuntimeInitInv, RuntimeStepInv, PTL DEF RSpec

-----------------------------------------------------------------------------
(* Backups (BackupPortability).                                             *)

\* The plans of the fleet, once PlanFleetMigration has made them, and the ids,
\* results and cursors that its execution can have.
FleetPlans == [i \in DOMAIN Mappings |-> PlanJobMigration(Mappings[i])]
TemplateNames == UNION {{FleetPlans[i][k].name : k \in DOMAIN FleetPlans[i]} : i \in DOMAIN Mappings}
JobIds == [name : TemplateNames, n : Nat]
Results == [created : Seq(JobIds), verified : SUBSET JobIds, failed : BOOLEAN]
Cursors == [plan : Nat \ {0}, job : Nat \ {0}, step : {"create", "start"}, id : JobIds \cup {NoId}]
Listed(p) == {jobResults[p].created[k] : k \in DOMAIN jobResults[p].created}

\* The template whose job got the id.
IdOfTemplate(id, p, k) == k \in Nat /\ id = [name |-> FleetPlans[p][k].name, n |-> k]

\* The execution has been at job k of plan p.
Passed(p, k) ==
    \/ p < at.plan
    \/ p = at.plan /\ (k < at.job \/ (k = at.job /\ at.step = "start"))

\* Types of the execution's results, its position and its report.
BackTypes ==
    /\ stage \notin {"plan", "ended"} => plans = FleetPlans
    /\ jobResults \in [DOMAIN Mappings -> Results] /\ at \in Cursors
    /\ stage # "execute" => at.step = "create"
    /\ stage \in {"list points", "list repositories", "judge", "judged"} => at.plan \in DOMAIN Mappings
    /\ report \in [DOMAIN Mappings -> Statuses \cup {"none"}]
    /\ \A j \in vjobs : "id" \in DOMAIN j

\* A job that is about to be started, or that was verified, is listed as created.
VerifiedInv ==
    /\ at.step = "start" => at.plan \in DOMAIN Mappings /\ at.id \in Listed(at.plan)
    /\ \A p \in DOMAIN Mappings : jobResults[p].verified \subseteq Listed(p)

\* A job on the server is the job of a template that was executed, by its id.
IdInv ==
    /\ \A j \in vjobs : \E p \in DOMAIN Mappings : \E k \in DOMAIN FleetPlans[p] :
          IdOfTemplate(j.id, p, k) /\ (stage = "execute" => Passed(p, k))
    /\ \A i, j \in vjobs : i.id = j.id => i = j
    /\ stage = "plan" => vjobs = {}

\* A job on the server is listed as created, or its id did not come back.
ListedInv == \A j \in vjobs : j.id \in unnamed \/ \E p \in DOMAIN Mappings : j.id \in Listed(p)

\* Job k of plan p is not on the server any more, or the result says so: an error,
\* or an id in undeleted.
Undone(p, k) ==
    \/ jobResults[p].failed
    \/ jobResults[p].created[k] \in undeleted
    \/ \A j \in vjobs : j.id # jobResults[p].created[k]

\* Behind the rollback nothing is left that neither an error nor undeleted names.
RolledInv ==
    /\ stage = "rollback" =>
         \A p \in DOMAIN Mappings : \A k \in DOMAIN jobResults[p].created :
            (p < at.plan \/ (p = at.plan /\ k < at.job)) => Undone(p, k)
    /\ CleanRollback

\* The inductive invariant of the portability manager.
BackInv == BackTypes /\ VerifiedInv /\ IdInv /\ ListedInv /\ RolledInv /\ StatusIsWorst

\* A template is named after its target, and expects every setting.
LEMMA TemplateOf ==
    ASSUME NEW p \in DOMAIN Mappings, NEW k \in DOMAIN FleetPlans[p]
    PROVE  /\ FleetPlans[p][k].name[2] = Mappings[p].target
           /\ FleetPlans[p][k].settings = TRUE /\ FleetPlans[p][k].name \in TemplateNames
<1>1. FleetPlans[p] = PlanJobMigration(Mappings[p])
  BY DEF FleetPlans
<1>2. DOMAIN PlanJobMigration(Mappings[p]) = DOMAIN ProtectingJobs(Mappings[p])
  BY DEF PlanJobMigration
<1>3. /\ FleetPlans[p][k].name = <<ProtectingJobs(Mappings[p])[k].name, Mappings[p].target>>
      /\ FleetPlans[p][k].settings = TRUE
  BY <1>1, <1>2 DEF PlanJobMigration, rewriteJobName
<1>4. FleetPlans[p][k].name \in TemplateNames
  BY DEF TemplateNames
<1>5. QED
  BY <1>3, <1>4

\* Two jobs with one id come from one template.
LEMMA TemplateById ==
    ASSUME NEW p \in DOMAIN Mappings, NEW k \in DOMAIN FleetPlans[p],
           NEW q \in DOMAIN Mappings, NEW l \in DOMAIN FleetPlans[q],
           NEW id, IdOfTemplate(id, p, k), IdOfTemplate(id, q, l)
    PROVE  p = q /\ k = l
<1>1. k = l /\ FleetPlans[p][k].name = FleetPlans[q][l].name
  BY DEF IdOfTemplate
<1>2. Mappings[p].target = Mappings[q].target
  BY <1>1, TemplateOf
<1>3. QED
  BY <1>1, <1>2, BackupAssumption

\* doJSONWithRetry: an answer with an id was applied and is no error, and only a
\* call that the server takes is applied.
LEMMA Answers ==
    ASSUME NEW e \in BOOLEAN, NEW r \in doJSONWithRetry(e)
    PROVE  /\ r.applied \in BOOLEAN /\ r.ok \in BOOLEAN /\ r.id \in BOOLEAN
           /\ r.id => r.applied /\ r.ok
           /\ r.applied => e
<1>1. \/ e /\ r \in {Done(TRUE), Done(FALSE), Failed(TRUE)}
      \/ r \in {Failed(FALSE), Unauthorized}
  BY DEF doJSONWithRetry, doRequest
<1>2. /\ Done(TRUE).applied = TRUE /\ Done(TRUE).ok = TRUE /\ Done(TRUE).id = TRUE
      /\ Done(FALSE).applied = TRUE /\ Done(FALSE).ok = TRUE /\ Done(FALSE).id = FALSE
      /\ Failed(TRUE).applied = TRUE /\ Failed(TRUE).ok = FALSE /\ Failed(TRUE).id = FALSE
      /\ Failed(FALSE).applied = FALSE /\ Failed(FALSE).ok = FALSE /\ Failed(FALSE).id = FALSE
      /\ Unauthorized.applied = FALSE /\ Unauthorized.ok = TRUE /\ Unauthorized.id = FALSE
  BY DEF Done, Failed, Unauthorized
<1>3. CASE e /\ r \in {Done(TRUE), Done(FALSE), Failed(TRUE)}
  BY <1>2, <1>3, Zenon
<1>4. CASE r \in {Failed(FALSE), Unauthorized}
  BY <1>2, <1>4, Zenon
<1>5. QED
  BY <1>1, <1>3, <1>4

\* ContinuityStatus gives one of the three statuses.
LEMMA StatusKnown ==
    ASSUME NEW plan, NEW listed
    PROVE  ContinuityStatus(plan, listed) \in Statuses
  BY DEF ContinuityStatus, Statuses

\* ContinuityStatus: healthy only if every job of the plan is there as planned and
\* a restore point matches; a missing job or a wrong repository or VM makes the
\* workload degraded, whatever else was found.
LEMMA WorstStatus ==
    ASSUME NEW plan, NEW listed \in PlanChoices(plan), \A i \in DOMAIN plan : plan[i].settings = TRUE
    PROVE  /\ ContinuityStatus(plan, listed) = "healthy" =>
                /\ \A i \in DOMAIN plan : \E j \in CurrentJobs(plan[i].name) :
                      /\ j.repo = plan[i].repo /\ j.vm = plan[i].vm /\ j.settings
                      /\ j.repo \in reads.repos
                /\ matchingRestorePoints(plan) # {}
           /\ (\E i \in DOMAIN plan : ~\E j \in CurrentJobs(plan[i].name) :
                  j.repo = plan[i].repo /\ j.vm = plan[i].vm)
                => ContinuityStatus(plan, listed) = "degraded"
<1> DEFINE found == {i \in DOMAIN plan : CurrentJobs(plan[i].name) # {}}
           drifts == UNION {detectPolicyDrift(plan[i], listed[i]) : i \in DOMAIN listed}
<1>1. DOMAIN listed = found /\ \A i \in found : listed[i] \in CurrentJobs(plan[i].name)
  BY DEF PlanChoices
<1>2. ASSUME ContinuityStatus(plan, listed) = "healthy"
      PROVE  /\ DOMAIN plan = DOMAIN listed /\ drifts = {} /\ matchingRestorePoints(plan) # {}
             /\ \A i \in DOMAIN listed : evaluateRepositoryCompatibility(listed[i].repo)
  BY <1>2 DEF ContinuityStatus
<1>3. DOMAIN plan # DOMAIN listed \/ "error" \in drifts => ContinuityStatus(plan, listed) = "degraded"
  BY DEF ContinuityStatus
<1>4. ASSUME NEW i \in DOMAIN listed, drifts = {}
      PROVE  listed[i].repo = plan[i].repo /\ listed[i].vm = plan[i].vm /\ listed[i].settings = plan[i].settings
  <2>1. detectPolicyDrift(plan[i], listed[i]) = {}
    BY <1>4
  <2>2. QED
    BY <2>1 DEF detectPolicyDrift
<1>5. ASSUME NEW i \in DOMAIN listed, listed[i].repo # plan[i].repo \/ listed[i].vm # plan[i].vm
      PROVE  "error" \in drifts
  <2>1. "error" \in detectPolicyDrift(plan[i], listed[i])
    BY <1>5 DEF detectPolicyDrift
  <2>2. QED
    BY <2>1
<1> HIDE DEF drifts
<1>6. ASSUME ContinuityStatus(plan, listed) = "healthy"
      PROVE  \A i \in DOMAIN plan : \E j \in CurrentJobs(plan[i].name) :
                /\ j.repo = plan[i].repo /\ j.vm = plan[i].vm /\ j.settings
                /\ j.repo \in reads.repos
  <2> SUFFICES ASSUME NEW i \in DOMAIN plan
               PROVE  \E j \in CurrentJobs(plan[i].name) :
                         /\ j.repo = plan[i].repo /\ j.vm = plan[i].vm /\ j.settings
                         /\ j.repo \in reads.repos
    OBVIOUS
  <2>1. i \in DOMAIN listed /\ listed[i] \in CurrentJobs(plan[i].name)
    BY <1>1, <1>2, <1>6
  <2>2. listed[i].repo = plan[i].repo /\ listed[i].vm = plan[i].vm /\ listed[i].settings
    BY <1>2, <1>4, <1>6, <2>1
  <2>3. listed[i].repo \in reads.repos
    BY <1>2, <1>6, <2>1 DEF evaluateRepositoryCompatibility
  <2>4. QED
    BY <2>1, <2>2, <2>3
<1>7. ASSUME NEW i \in DOMAIN plan,
             ~\E j \in CurrentJobs(plan[i].name) : j.repo = plan[i].repo /\ j.vm = plan[i].vm
      PROVE  ContinuityStatus(plan, listed) = "degraded"
  <2>1. CASE i \notin DOMAIN listed
    BY <1>3, <2>1
  <2>2. CASE i \in DOMAIN listed
    BY <1>1, <1>3, <1>5, <1>7, <2>2
  <2>3. QED
    BY <2>1, <2>2
<1>8. QED
  BY <1>2, <1>6, <1>7

\* Nothing on the server or in the results changes.
LEMMA QuietBackups ==
    ASSUME BackInv, UNCHANGED <<vjobs, jobResults, unnamed, undeleted>>,
           BackTypes', StatusIsWorst', CleanRollback',
           at'.step = "start" => at' = at,
           stage' = "plan" => stage = "plan",
           stage' = "execute" => /\ stage \in {"plan", "execute"}
                                 /\ \A p \in Nat, k \in Nat : Passed(p, k) => Passed(p, k)',
           stage' = "rollback" => at' = Start \/ (stage = "rollback" /\ at' = at)
    PROVE  BackInv'
<1>1. VerifiedInv'
  BY DEF BackInv, VerifiedInv, Listed
<1>2. IdInv'
  <2>1. ASSUME NEW j \in vjobs
        PROVE  \E p \in DOMAIN Mappings : \E k \in DOMAIN FleetPlans[p] :
                  IdOfTemplate(j.id, p, k) /\ (stage' = "execute" => Passed(p, k)')
    <3>1. PICK p \in DOMAIN Mappings : \E k \in DOMAIN FleetPlans[p] :
                  IdOfTemplate(j.id, p, k) /\ (stage = "execute" => Passed(p, k))
      BY DEF BackInv, IdInv
    <3>2. PICK k \in DOMAIN FleetPlans[p] : IdOfTemplate(j.id, p, k) /\ (stage = "execute" => Passed(p, k))
      BY <3>1
    <3>3. p \in Nat /\ k \in Nat
      BY <3>2, BackupAssumption DEF IdOfTemplate
    <3>4. stage' = "execute" => Passed(p, k)'
      BY <3>2, <3>3 DEF BackInv, IdInv
    <3>5. QED
      BY <3>2, <3>4
  <2>2. QED
    BY <2>1 DEF BackInv, IdInv, IdOfTemplate
<1>3. ListedInv'
  BY DEF BackInv, ListedInv, Listed
<1>4. RolledInv'
  <2>1. ASSUME stage' = "rollback", NEW p \in DOMAIN Mappings, NEW k \in DOMAIN jobResults'[p].created,
               p < at'.plan \/ (p = at'.plan /\ k < at'.job)
        PROVE  Undone(p, k)'
    <3>1. p \in Nat \ {0} /\ k \in Nat \ {0}
      <4>1. jobResults'[p].created \in Seq(JobIds)
        BY DEF BackTypes, Results
      <4>2. QED
        BY <4>1, BackupAssumption
    <3>2. at' # Start
      BY <2>1, <3>1 DEF Start, Cursor
    <3>3. stage = "rollback" /\ at' = at
      BY <2>1, <3>2
    <3>4. Undone(p, k)
      BY <2>1, <3>3 DEF BackInv, RolledInv
    <3>5. QED
      BY <3>4 DEF Undone
  <2>2. QED
    BY <2>1 DEF RolledInv
<1>5. QED
  BY <1>1, <1>2, <1>3, <1>4 DEF BackInv

\* PlanFleetMigration makes the plan of every workload before anything is
\* executed.
LEMMA PlanFleetInv ==
    ASSUME BackInv, PlanFleetMigration
    PROVE  BackInv'
<1>1. stage = "plan" /\ stage' \in {"execute", "ended"} /\ UNCHANGED <<vjobs, jobResults, unnamed, undeleted, at, report>>
  BY DEF PlanFleetMigration, server
<1>2. BackTypes'
  BY <1>1 DEF BackInv, BackTypes, PlanFleetMigration, FleetPlans
<1>3. StatusIsWorst' /\ CleanRollback'
  BY <1>1 DEF StatusIsWorst, CleanRollback
<1>4. \A p \in Nat, k \in Nat : Passed(p, k) => Passed(p, k)'
  BY <1>1 DEF Passed
<1>5. QED
  BY <1>1, <1>2, <1>3, <1>4, QuietBackups

\* Executing goes on to the next workload once the jobs of one are done or one
\* failed.
LEMMA NextWorkloadInv ==
    ASSUME BackInv, NextWorkload
    PROVE  BackInv'
<1>1. /\ stage = "execute" /\ stage' = "execute" /\ at \in Cursors /\ plans' = plans
      /\ UNCHANGED <<vjobs, jobResults, unnamed, undeleted, report>>
      /\ at' = [plan |-> at.plan + 1, job |-> 1, step |-> "create", id |-> NoId]
  BY DEF BackInv, BackTypes, NextWorkload, server, Cursor
<1>2. at.plan \in Nat \ {0} /\ at.job \in Nat
  BY <1>1 DEF Cursors
<1>3. BackTypes'
  BY <1>1, <1>2 DEF BackInv, BackTypes, Cursors
<1>4. StatusIsWorst' /\ CleanRollback'
  BY <1>1 DEF StatusIsWorst, CleanRollback
<1>5. \A p \in Nat, k \in Nat : Passed(p, k) => Passed(p, k)'
  BY <1>1, <1>2 DEF Passed
<1>6. at'.step = "create"
  BY <1>1
<1>7. QED
  BY <1>1, <1>3, <1>4, <1>5, <1>6, QuietBackups

\* Stage changes that start over at the first workload, or stay at the one they are at.
LEMMA StageInv ==
    ASSUME BackInv, AfterExecute \/ ReadJobs \/ ReadPoints \/ ReadRepositories \/ ReadFails \/ AfterValidate
    PROVE  BackInv'
<1>1. /\ stage \in {"execute", "list jobs", "list points", "list repositories"}
      /\ stage' \in {"list jobs", "list points", "list repositories", "judge", "rollback", "ended"}
      /\ stage' = "rollback" => at' = Start
      /\ at' = Start \/ (at' = at /\ stage # "execute")
      /\ UNCHANGED <<vjobs, jobResults, unnamed, undeleted, plans>>
      /\ report' = report \/ report' = [i \in DOMAIN Mappings |-> "none"]
  BY DEF AfterExecute, ReadJobs, ReadPoints, ReadRepositories, ReadFails, AfterValidate, server
<1>2. Start \in Cursors /\ Start.step = "create"
  BY DEF Start, Cursor, Cursors
<1>3. BackTypes'
  <2>1. stage' \in {"list points", "list repositories", "judge"} => at'.plan \in DOMAIN Mappings
    BY DEF BackInv, BackTypes, AfterExecute, ReadJobs, ReadPoints, ReadRepositories, ReadFails, AfterValidate, FleetPlans
  <2>2. QED
    BY <1>1, <1>2, <2>1 DEF BackInv, BackTypes, Statuses
<1>4. StatusIsWorst' /\ CleanRollback'
  BY <1>1 DEF StatusIsWorst, CleanRollback
<1>5. at'.step = "create"
  BY <1>1, <1>2 DEF BackInv, BackTypes
<1>6. QED
  BY <1>1, <1>3, <1>4, <1>5, QuietBackups

\* ValidateBackupContinuity records the status of the workload that was read, and
\* changes nothing on the server.
LEMMA ValidateInv ==
    ASSUME BackInv, ValidateBackupContinuity
    PROVE  BackInv'
<1>1. /\ stage = "judge" /\ stage' = "judged" /\ UNCHANGED <<vjobs, jobResults, unnamed, undeleted, plans, at, reads>>
      /\ plans = FleetPlans
  BY DEF ValidateBackupContinuity, server, BackInv, BackTypes
<1>2. PICK listed \in PlanChoices(plans[at.plan]) :
         report' = [report EXCEPT ![at.plan] = ContinuityStatus(plans[at.plan], listed)]
  BY DEF ValidateBackupContinuity
<1>3. ContinuityStatus(plans[at.plan], listed) \in Statuses
  BY StatusKnown
<1>4. BackTypes'
  BY <1>1, <1>2, <1>3 DEF BackInv, BackTypes
<1>5. StatusIsWorst'
  <2>1. at.plan \in DOMAIN Mappings
    BY <1>1 DEF BackInv, BackTypes
  <2>2. \A i \in DOMAIN plans[at.plan] : plans[at.plan][i].settings = TRUE
    BY <1>1, <2>1, TemplateOf
  <2>3. report'[at.plan] = ContinuityStatus(plans[at.plan], listed)
    BY <1>2, <2>1 DEF BackInv, BackTypes
  <2>4. /\ report'[at.plan] = "healthy" =>
              /\ \A i \in DOMAIN plans[at.plan] : \E j \in CurrentJobs(plans[at.plan][i].name) :
                    /\ j.repo = plans[at.plan][i].repo /\ j.vm = plans[at.plan][i].vm /\ j.settings
                    /\ j.repo \in reads.repos
              /\ matchingRestorePoints(plans[at.plan]) # {}
        /\ (\E i \in DOMAIN plans[at.plan] : ~\E j \in CurrentJobs(plans[at.plan][i].name) :
                j.repo = plans[at.plan][i].repo /\ j.vm = plans[at.plan][i].vm)
              => report'[at.plan] = "degraded"
    BY <2>2, <2>3, WorstStatus
  <2>5. QED
    BY <1>1, <2>4 DEF StatusIsWorst, CurrentJobs, matchingRestorePoints
<1>6. CleanRollback'
  BY <1>1 DEF CleanRollback
<1>7. at'.step = "create"
  BY <1>1 DEF BackInv, BackTypes
<1>8. QED
  BY <1>1, <1>4, <1>5, <1>6, <1>7, QuietBackups
\* The validation goes on to the next workload.
LEMMA ValidateNextInv ==
    ASSUME BackInv, ValidateNext
    PROVE  BackInv'
<1>1. /\ stage = "judged" /\ stage' = "list jobs" /\ UNCHANGED <<vjobs, jobResults, unnamed, undeleted, plans, report>>
      /\ at' = [plan |-> at.plan + 1, job |-> 1, step |-> "create", id |-> NoId] /\ at \in Cursors
  BY DEF ValidateNext, server, BackInv, BackTypes, Cursor
<1>2. BackTypes'
  <2>1. at.plan \in Nat \ {0}
    BY <1>1 DEF Cursors
  <2>2. at' \in Cursors /\ at'.step = "create"
    <3>1. PICK n \in Nat \ {0} : n = at.plan + 1
      BY <2>1
    <3>2. at' = [plan |-> n, job |-> 1, step |-> "create", id |-> NoId]
      BY <1>1, <3>1
    <3>3. QED
      BY <3>2 DEF Cursors
  <2>3. QED
    BY <1>1, <2>2 DEF BackInv, BackTypes
<1>3. StatusIsWorst' /\ CleanRollback' /\ at'.step = "create"
  BY <1>1 DEF StatusIsWorst, CleanRollback
<1>4. QED
  BY <1>1, <1>2, <1>3, QuietBackups

\* A backup that runs changes nothing that the manager keeps.
LEMMA BackupRunsInv ==
    ASSUME BackInv, BackupRuns \/ UNCHANGED bvars
    PROVE  BackInv'
<1>1. /\ UNCHANGED <<vjobs, jobResults, unnamed, undeleted, plans, at, report, reads, stage>>
  BY DEF BackupRuns, bvars
<1>2. BackTypes'
  BY <1>1 DEF BackInv, BackTypes
<1>3. StatusIsWorst' /\ CleanRollback'
  <2>1. StatusIsWorst /\ CleanRollback
    BY DEF BackInv, RolledInv
  <2>2. CleanRollback'
    BY <1>1, <2>1 DEF CleanRollback
  <2>3. StatusIsWorst'
    <3>1. \A plan : matchingRestorePoints(plan)' = matchingRestorePoints(plan)
      BY <1>1 DEF matchingRestorePoints
    <3>2. QED
      BY <1>1, <2>1, <3>1, Zenon DEF StatusIsWorst, CurrentJobs
  <2>4. QED
    BY <2>2, <2>3
<1>4. \A p \in Nat, k \in Nat : Passed(p, k) => Passed(p, k)'
  BY <1>1 DEF Passed
<1>5. QED
  BY <1>1, <1>2, <1>3, <1>4, QuietBackups

\* A rollback ends behind the last plan, where everything is undone.
LEMMA RollbackEndsInv ==
    ASSUME BackInv, RollbackEnds
    PROVE  BackInv'
<1>1. /\ stage = "rollback" /\ stage' \in {"rollback failed", "rolled back"} /\ plans = FleetPlans
      /\ UNCHANGED <<vjobs, jobResults, unnamed, undeleted, plans, at, report>>
      /\ at.plan \notin DOMAIN FleetPlans /\ at \in Cursors
  BY DEF RollbackEnds, server, BackInv, BackTypes
<1>2. BackTypes' /\ StatusIsWorst'
  BY <1>1 DEF BackInv, BackTypes, StatusIsWorst
<1>3. at'.step = "create"
  BY <1>1 DEF BackInv, BackTypes
<1>4. CleanRollback'
  <2>1. ASSUME stage' = "rolled back", NEW j \in vjobs PROVE j.id \in unnamed \cup undeleted
    <3>1. CASE j.id \in unnamed
      BY <3>1
    <3>2. CASE j.id \notin unnamed
      <4>1. PICK p \in DOMAIN Mappings : j.id \in Listed(p)
        BY <3>2 DEF BackInv, ListedInv
      <4>2. PICK k \in DOMAIN jobResults[p].created : jobResults[p].created[k] = j.id
        BY <4>1 DEF Listed
      <4>3. p < at.plan
        <5>1. DOMAIN FleetPlans = 1 .. Len(Mappings) /\ Len(Mappings) \in Nat /\ p \in 1 .. Len(Mappings)
          BY BackupAssumption DEF FleetPlans
        <5>2. at.plan \in Nat \ {0} /\ at.plan \notin DOMAIN FleetPlans
          BY <1>1 DEF Cursors
        <5>3. QED
          BY <5>1, <5>2
      <4>4. Undone(p, k)
        BY <1>1, <4>2, <4>3 DEF BackInv, RolledInv
      <4>5. ~jobResults[p].failed
        <5>1. p \in DOMAIN jobResults /\ jobResults[p].created # <<>>
          <6>1. p \in DOMAIN jobResults
            BY DEF BackInv, BackTypes
          <6>2. DOMAIN jobResults[p].created # {}
            BY <4>2
          <6>3. QED
            BY <6>1, <6>2
        <5>2. QED
          BY <2>1, <5>1 DEF RollbackEnds
      <4>6. QED
        BY <4>2, <4>4, <4>5 DEF Undone
    <3>3. QED
      BY <3>1, <3>2
  <2>2. QED
    BY <1>1, <2>1 DEF CleanRollback
<1>5. QED
  BY <1>1, <1>2, <1>3, <1>4, QuietBackups

\* StatusIsWorst is about the moment after a validation.
LEMMA NotJudged ==
    ASSUME stage' \notin {"judged", "rolled back"}
    PROVE  StatusIsWorst' /\ CleanRollback'
  BY DEF StatusIsWorst, CleanRollback

\* Somebody edits or removes a job on the server: ids stay unique, and no new one
\* appears.
LEMMA EditInv ==
    ASSUME BackInv, Edit
    PROVE  BackInv'
<1>1. /\ stage \in {"execute", "list jobs", "list points", "list repositories"}
      /\ UNCHANGED <<stage, plans, at, jobResults, unnamed, undeleted, reads, report>>
  BY DEF Edit
<1>2. /\ \A j \in vjobs : "id" \in DOMAIN j
      /\ \A i, j \in vjobs : i.id = j.id => i = j
  BY DEF BackInv, BackTypes, IdInv
<1>3. /\ \A j \in vjobs' : "id" \in DOMAIN j /\ \E i \in vjobs : i.id = j.id
      /\ \A i, j \in vjobs' : i.id = j.id => i = j
  <2>1. CASE vjobs' = vjobs
    BY <1>2, <2>1
  <2>2. ASSUME NEW j \in vjobs, vjobs' = vjobs \ {j}
        PROVE  <1>3!1 /\ <1>3!2
    BY <1>2, <2>2
  <2>3. ASSUME NEW j \in vjobs, NEW e, vjobs' = (vjobs \ {j}) \cup {e}, "id" \in DOMAIN e, e.id = j.id
        PROVE  <1>3!1 /\ <1>3!2
    BY <1>2, <2>3
  <2>4. ASSUME NEW j \in vjobs
        PROVE  /\ "id" \in DOMAIN [j EXCEPT !.settings = FALSE] /\ [j EXCEPT !.settings = FALSE].id = j.id
               /\ "id" \in DOMAIN [j EXCEPT !.repo = "other"] /\ [j EXCEPT !.repo = "other"].id = j.id
    BY <1>2
  <2>5. QED
    BY <2>1, <2>2, <2>3, <2>4 DEF Edit
<1>4. BackTypes'
  BY <1>1, <1>3 DEF BackInv, BackTypes
<1>5. VerifiedInv'
  <2>1. \A p \in DOMAIN Mappings : Listed(p)' = Listed(p) /\ jobResults'[p] = jobResults[p]
    BY <1>1 DEF Listed
  <2>2. at' = at /\ VerifiedInv
    BY <1>1 DEF BackInv
  <2>3. QED
    BY <2>1, <2>2 DEF VerifiedInv, Listed
<1>6. IdInv'
  <2>1. ASSUME NEW j \in vjobs'
        PROVE  \E p \in DOMAIN Mappings : \E k \in DOMAIN FleetPlans[p] :
                  IdOfTemplate(j.id, p, k) /\ (stage' = "execute" => Passed(p, k)')
    <3>1. PICK i \in vjobs : i.id = j.id
      BY <1>3
    <3>2. PICK p \in DOMAIN Mappings : \E k \in DOMAIN FleetPlans[p] :
                  IdOfTemplate(j.id, p, k) /\ (stage = "execute" => Passed(p, k))
      BY <3>1 DEF BackInv, IdInv
    <3>3. \A k : Passed(p, k)' <=> Passed(p, k)
      BY <1>1 DEF Passed
    <3>4. QED
      BY <1>1, <3>2, <3>3
  <2>2. QED
    BY <1>1, <1>3, <2>1 DEF IdInv, IdOfTemplate
<1>7. ListedInv'
  <2>1. ASSUME NEW j \in vjobs' PROVE j.id \in unnamed \/ \E p \in DOMAIN Mappings : j.id \in Listed(p)
    BY <1>3 DEF BackInv, ListedInv
  <2>2. QED
    BY <1>1, <2>1 DEF ListedInv, Listed
<1>8. RolledInv' /\ StatusIsWorst'
  BY <1>1, NotJudged DEF RolledInv
<1>9. QED
  BY <1>4, <1>5, <1>6, <1>7, <1>8 DEF BackInv

\* StartJob verifies the job just created, or fails its workload.
LEMMA StartJobInv ==
    ASSUME BackInv, StartJob
    PROVE  BackInv'
<1>1. /\ stage = "execute" /\ at.step = "start" /\ at \in Cursors
      /\ UNCHANGED <<vjobs, stage, plans, unnamed, undeleted, report>>
      /\ at' = [plan |-> at.plan, job |-> at.job + 1, step |-> "create", id |-> NoId]
      /\ at.plan \in DOMAIN Mappings /\ at.id \in Listed(at.plan)
  BY DEF StartJob, server, NextJob, Cursor, BackInv, BackTypes, VerifiedInv
<1>2. at.plan \in Nat \ {0} /\ at.job \in Nat \ {0} /\ jobResults \in [DOMAIN Mappings -> Results]
  BY <1>1 DEF Cursors, BackInv, BackTypes
<1>3. at.id \in JobIds
  <2>1. jobResults[at.plan].created \in Seq(JobIds)
    BY <1>1, <1>2 DEF Results
  <2>2. QED
    BY <1>1, <2>1 DEF Listed
<1>4. \/ jobResults' = [jobResults EXCEPT ![at.plan] = [jobResults[at.plan] EXCEPT !.verified = @ \cup {at.id}]]
      \/ jobResults' = [jobResults EXCEPT ![at.plan] = [jobResults[at.plan] EXCEPT !.failed = TRUE]]
  BY DEF StartJob
<1>5. /\ jobResults' \in [DOMAIN Mappings -> Results]
      /\ \A p \in DOMAIN Mappings : /\ jobResults'[p].created = jobResults[p].created
                                    /\ jobResults'[p].verified \in {jobResults[p].verified,
                                                                    jobResults[p].verified \cup {at.id}}
                                    /\ p # at.plan => jobResults'[p] = jobResults[p]
  <2>1. jobResults[at.plan] \in Results
    BY <1>1, <1>2
  <2>2. CASE jobResults' = [jobResults EXCEPT ![at.plan] = [jobResults[at.plan] EXCEPT !.verified = @ \cup {at.id}]]
    <3>1. [jobResults[at.plan] EXCEPT !.verified = @ \cup {at.id}] \in Results
      BY <1>3, <2>1 DEF Results
    <3>2. QED
      BY <1>1, <1>2, <2>1, <2>2, <3>1 DEF Results
  <2>3. CASE jobResults' = [jobResults EXCEPT ![at.plan] = [jobResults[at.plan] EXCEPT !.failed = TRUE]]
    <3>1. [jobResults[at.plan] EXCEPT !.failed = TRUE] \in Results
      BY <2>1 DEF Results
    <3>2. QED
      BY <1>1, <1>2, <2>1, <2>3, <3>1 DEF Results
  <2>4. QED
    BY <1>4, <2>2, <2>3
<1>6. at' \in Cursors /\ at'.step = "create"
  <2>1. PICK n \in Nat \ {0} : n = at.job + 1
    BY <1>2
  <2>2. at' = [plan |-> at.plan, job |-> n, step |-> "create", id |-> NoId]
    BY <1>1, <2>1
  <2>3. QED
    BY <1>2, <2>2 DEF Cursors
<1>7. BackTypes'
  BY <1>1, <1>5, <1>6 DEF BackInv, BackTypes
<1>8. VerifiedInv'
  BY <1>1, <1>5, <1>6 DEF BackInv, VerifiedInv, Listed
<1>9. IdInv'
  <2>1. \A p \in DOMAIN Mappings, k \in Nat : Passed(p, k) => Passed(p, k)'
    BY <1>1, <1>2 DEF Passed
  <2>2. QED
    BY <1>1, <2>1 DEF BackInv, IdInv, IdOfTemplate
<1>10. ListedInv'
  BY <1>1, <1>5 DEF BackInv, ListedInv, Listed
<1>11. RolledInv' /\ StatusIsWorst'
  BY <1>1, NotJudged DEF RolledInv
<1>12. QED
  BY <1>7, <1>8, <1>9, <1>10, <1>11 DEF BackInv

\* CreateJob: the server may have created the job although its answer was lost;
\* only then the id is not listed.
LEMMA CreateJobInv ==
    ASSUME BackInv, CreateJob
    PROVE  BackInv'
<1> DEFINE a == at.plan
           b == at.job
           new == [name |-> FleetPlans[a][b].name, n |-> b]
<1>1. /\ stage = "execute" /\ at.step = "create" /\ at \in Cursors /\ plans = FleetPlans
      /\ a \in DOMAIN Mappings /\ b \in DOMAIN FleetPlans[a]
      /\ UNCHANGED <<stage, plans, undeleted, report>>
  BY DEF CreateJob, BackInv, BackTypes, FleetPlans
<1>2. a \in Nat \ {0} /\ b \in Nat \ {0} /\ jobResults \in [DOMAIN Mappings -> Results]
      /\ jobResults[a] \in Results /\ jobResults[a].created \in Seq(JobIds)
  BY <1>1 DEF Cursors, BackInv, BackTypes, Results
<1>3. NewId = new /\ Template.name = FleetPlans[a][b].name /\ Template.name \in TemplateNames
  BY <1>1, TemplateOf DEF NewId, Template
<1>4. new \in JobIds /\ [name |-> Template.name, n |-> 0] \in JobIds
  BY <1>2, <1>3 DEF JobIds
<1>5. PICK r \in doJSONWithRetry(TRUE) :
        LET id == IF r.id THEN NewId ELSE [name |-> Template.name, n |-> 0]
        IN  /\ vjobs' = IF r.applied
                        THEN vjobs \cup {[id |-> NewId, name |-> Template.name, repo |-> Template.repo,
                                          vm |-> Template.vm, settings |-> TRUE]}
                        ELSE vjobs
            /\ unnamed' = IF r.applied /\ ~r.id THEN unnamed \cup {NewId} ELSE unnamed
            /\ IF r.ok
               THEN /\ jobResults' = [jobResults EXCEPT ![at.plan].created = Append(@, id)]
                    /\ at' = [plan |-> at.plan, job |-> at.job, step |-> "start", id |-> id]
               ELSE /\ jobResults' = [jobResults EXCEPT ![at.plan].failed = TRUE]
                    /\ at' = NextJob
  BY DEF CreateJob
<1>6. (r.id => r.applied /\ r.ok)
  BY Answers
<1> DEFINE id == IF r.id THEN new ELSE [name |-> Template.name, n |-> 0]
           job == [id |-> new, name |-> Template.name, repo |-> Template.repo,
                   vm |-> Template.vm, settings |-> TRUE]
<1>7. /\ id \in JobIds /\ (r.id => id = new)
      /\ "id" \in DOMAIN job /\ job.id = new
  BY <1>4
<1>8. /\ vjobs' = IF r.applied THEN vjobs \cup {job} ELSE vjobs
      /\ unnamed' = IF r.applied /\ ~r.id THEN unnamed \cup {new} ELSE unnamed
      /\ r.ok => /\ jobResults' = [jobResults EXCEPT ![a].created = Append(@, id)]
                 /\ at' = [plan |-> at.plan, job |-> at.job, step |-> "start", id |-> id]
      /\ ~r.ok => jobResults' = [jobResults EXCEPT ![a].failed = TRUE] /\ at' = NextJob
  BY <1>3, <1>5
<1>9. IdOfTemplate(new, a, b)
  BY <1>2 DEF IdOfTemplate
<1> HIDE DEF new, id, job
<1>10. /\ at' \in Cursors /\ at'.plan = a
       /\ at'.step = "start" => at'.id = id /\ at'.job = b /\ r.ok
       /\ at'.step = "create" => at'.job = b + 1
  <2>1. CASE r.ok
    BY <1>1, <1>2, <1>7, <1>8, <2>1 DEF Cursors
  <2>2. CASE ~r.ok
    <3>1. PICK n \in Nat \ {0} : n = b + 1
      BY <1>2
    <3>2. at' = [plan |-> a, job |-> n, step |-> "create", id |-> NoId]
      BY <1>8, <2>2, <3>1 DEF NextJob, Cursor
    <3>3. QED
      BY <1>2, <3>1, <3>2 DEF Cursors
  <2>3. QED
    BY <2>1, <2>2
<1>11. /\ jobResults' \in [DOMAIN Mappings -> Results]
       /\ \A p \in DOMAIN Mappings : /\ Listed(p) \subseteq Listed(p)'
                                     /\ jobResults'[p].verified = jobResults[p].verified
       /\ r.ok => id \in Listed(a)'
  <2>1. CASE r.ok
    <3>1. Append(jobResults[a].created, id) \in Seq(JobIds)
      BY <1>2, <1>7
    <3>2. [jobResults[a] EXCEPT !.created = Append(@, id)] \in Results
      BY <1>2, <3>1 DEF Results
    <3>3. jobResults' = [jobResults EXCEPT ![a] = [jobResults[a] EXCEPT !.created = Append(@, id)]]
      BY <1>8, <2>1
    <3>4. /\ jobResults' \in [DOMAIN Mappings -> Results]
          /\ jobResults'[a].created = Append(jobResults[a].created, id)
          /\ jobResults'[a].verified = jobResults[a].verified
          /\ \A p \in DOMAIN Mappings : p # a => jobResults'[p] = jobResults[p]
      BY <1>1, <1>2, <3>2, <3>3 DEF Results
    <3>5. Listed(a) \subseteq Listed(a)' /\ id \in Listed(a)'
      <4>0. PICK seq \in Seq(JobIds) : seq = jobResults[a].created
        BY <1>2
      <4>1. /\ DOMAIN seq \subseteq DOMAIN Append(seq, id)
            /\ \A k \in DOMAIN seq : Append(seq, id)[k] = seq[k]
            /\ Len(seq) + 1 \in DOMAIN Append(seq, id) /\ Append(seq, id)[Len(seq) + 1] = id
        BY <1>7
      <4>2. QED
        BY <1>10, <3>4, <4>0, <4>1 DEF Listed
    <3>6. QED
      BY <1>1, <2>1, <3>4, <3>5 DEF Listed
  <2>2. CASE ~r.ok
    <3>1. [jobResults[a] EXCEPT !.failed = TRUE] \in Results
      BY <1>2 DEF Results
    <3>2. jobResults' = [jobResults EXCEPT ![a] = [jobResults[a] EXCEPT !.failed = TRUE]]
      BY <1>8, <2>2
    <3>3. /\ jobResults' \in [DOMAIN Mappings -> Results]
          /\ \A p \in DOMAIN Mappings : /\ jobResults'[p].created = jobResults[p].created
                                        /\ jobResults'[p].verified = jobResults[p].verified
      BY <1>1, <1>2, <3>1, <3>2 DEF Results
    <3>4. QED
      BY <2>2, <3>3 DEF Listed
  <2>3. QED
    BY <2>1, <2>2
<1>12. BackTypes'
  BY <1>1, <1>7, <1>8, <1>10, <1>11 DEF BackInv, BackTypes
<1>13. VerifiedInv'
  <2>1. \A p \in DOMAIN Mappings : jobResults'[p].verified \subseteq Listed(p)'
    BY <1>11 DEF BackInv, VerifiedInv
  <2>2. at'.step = "start" => at'.plan \in DOMAIN Mappings /\ at'.id \in Listed(a)'
    BY <1>1, <1>10, <1>11
  <2>3. QED
    BY <1>10, <2>1, <2>2 DEF VerifiedInv, Listed
<1>14. \A p \in DOMAIN Mappings, k \in Nat : Passed(p, k) \/ (p = a /\ k = b) => Passed(p, k)'
  BY <1>1, <1>2, <1>10 DEF Passed, Cursors
<1>15. \A j \in vjobs : j.id # new
  <2>1. SUFFICES ASSUME NEW j \in vjobs, j.id = new PROVE FALSE
    OBVIOUS
  <2>2. PICK p \in DOMAIN Mappings : \E k \in DOMAIN FleetPlans[p] :
                IdOfTemplate(j.id, p, k) /\ (stage = "execute" => Passed(p, k))
    BY DEF BackInv, IdInv
  <2>3. PICK k \in DOMAIN FleetPlans[p] : IdOfTemplate(j.id, p, k) /\ Passed(p, k)
    BY <1>1, <2>2
  <2>4. p = a /\ k = b
    BY <1>1, <1>9, <2>1, <2>3, TemplateById
  <2>5. QED
    BY <1>1, <1>2, <2>3, <2>4 DEF Passed
<1>16. IdInv'
  <2>1. ASSUME NEW j \in vjobs'
        PROVE  \E p \in DOMAIN Mappings : \E k \in DOMAIN FleetPlans[p] :
                  IdOfTemplate(j.id, p, k) /\ Passed(p, k)'
    <3>1. CASE j \in vjobs
      <4>1. PICK p \in DOMAIN Mappings : \E k \in DOMAIN FleetPlans[p] :
                    IdOfTemplate(j.id, p, k) /\ (stage = "execute" => Passed(p, k))
        BY <3>1 DEF BackInv, IdInv
      <4>2. PICK k \in DOMAIN FleetPlans[p] : IdOfTemplate(j.id, p, k) /\ Passed(p, k)
        BY <1>1, <4>1
      <4>3. Passed(p, k)'
        BY <1>14, <4>2 DEF IdOfTemplate
      <4>4. QED
        BY <4>2, <4>3
    <3>2. CASE j = job
      BY <1>1, <1>2, <1>7, <1>9, <1>14, <3>2
    <3>3. QED
      BY <1>8, <3>1, <3>2
  <2>2. \A i, j \in vjobs' : i.id = j.id => i = j
    BY <1>7, <1>8, <1>15 DEF BackInv, IdInv
  <2>3. QED
    BY <1>1, <2>1, <2>2 DEF IdInv, IdOfTemplate
<1>17. ListedInv'
  <2>1. ASSUME NEW j \in vjobs' PROVE j.id \in unnamed' \/ \E p \in DOMAIN Mappings : j.id \in Listed(p)'
    <3>1. CASE j \in vjobs
      BY <1>8, <1>11, <3>1 DEF BackInv, ListedInv
    <3>2. CASE j = job /\ r.applied
      <4>1. j.id = new
        BY <1>7, <3>2
      <4>2. CASE r.id
        BY <1>1, <1>6, <1>7, <1>10, <1>11, <4>1, <4>2
      <4>3. CASE ~r.id
        BY <1>8, <3>2, <4>1, <4>3
      <4>4. QED
        BY <4>2, <4>3
    <3>3. QED
      BY <1>8, <3>1, <3>2
  <2>2. QED
    BY <2>1 DEF ListedInv, Listed
<1>18. RolledInv' /\ StatusIsWorst'
  BY <1>1, NotJudged DEF RolledInv
<1>19. QED
  BY <1>12, <1>13, <1>16, <1>17, <1>18 DEF BackInv

\* RollbackJobMigration deletes a listed job, or names it as undeleted, and goes
\* on.
LEMMA RollbackInv ==
    ASSUME BackInv, RollbackJobMigration
    PROVE  BackInv'
<1> DEFINE a == at.plan
           b == at.job
<1>1. /\ stage = "rollback" /\ at \in Cursors /\ at.step = "create" /\ plans = FleetPlans
      /\ UNCHANGED <<stage, plans, report, unnamed>> /\ a \in DOMAIN Mappings
  BY DEF RollbackJobMigration, BackInv, BackTypes, FleetPlans
<1>2. a \in Nat \ {0} /\ b \in Nat \ {0} /\ jobResults \in [DOMAIN Mappings -> Results]
      /\ jobResults[a] \in Results /\ jobResults[a].created \in Seq(JobIds)
  BY <1>1 DEF Cursors, BackInv, BackTypes, Results
<1>3. CASE b > Len(jobResults[a].created)
  <2>1. UNCHANGED <<vjobs, undeleted, jobResults>> /\ at' = [plan |-> a + 1, job |-> 1, step |-> "create", id |-> NoId]
    BY <1>3 DEF RollbackJobMigration, Cursor
  <2>2. at' \in Cursors /\ at'.step = "create" /\ at'.plan = a + 1 /\ at'.job = 1
    <3>1. PICK n \in Nat \ {0} : n = a + 1
      BY <1>2
    <3>2. at' = [plan |-> n, job |-> 1, step |-> "create", id |-> NoId]
      BY <2>1, <3>1
    <3>3. QED
      BY <3>1, <3>2 DEF Cursors
  <2>3. BackTypes'
    BY <1>1, <2>1, <2>2 DEF BackInv, BackTypes
  <2>4. VerifiedInv'
    BY <2>1, <2>2 DEF BackInv, VerifiedInv, Listed
  <2>5. IdInv'
    BY <1>1, <2>1 DEF BackInv, IdInv, IdOfTemplate
  <2>6. ListedInv'
    BY <1>1, <2>1 DEF BackInv, ListedInv, Listed
  <2>7. RolledInv'
    <3>1. ASSUME NEW p \in DOMAIN Mappings, NEW k \in DOMAIN jobResults[p].created,
                 p < at'.plan \/ (p = at'.plan /\ k < at'.job)
          PROVE  Undone(p, k)
      <4>1. p \in Nat /\ k \in Nat \ {0} /\ (p = a => k <= Len(jobResults[a].created))
        <5>1. jobResults[p].created \in Seq(JobIds)
          BY <1>2 DEF Results
        <5>2. QED
          BY <5>1, BackupAssumption
      <4>2. p < a \/ (p = a /\ k < b)
        BY <1>2, <1>3, <2>2, <3>1, <4>1
      <4>3. QED
        BY <1>1, <4>2 DEF BackInv, RolledInv
    <3>2. QED
      BY <1>1, <2>1, <3>1 DEF RolledInv, Undone, CleanRollback
  <2>8. StatusIsWorst'
    BY <1>1, NotJudged
  <2>9. QED
    BY <2>3, <2>4, <2>5, <2>6, <2>7, <2>8 DEF BackInv
<1>4. CASE ~(b > Len(jobResults[a].created))
  <2> DEFINE id == jobResults[a].created[b]
  <2>1. PICK r \in doJSONWithRetry(\E j \in vjobs : j.id = id) :
          /\ vjobs' = IF r.applied THEN {j \in vjobs : j.id # id} ELSE vjobs
          /\ undeleted' = IF r.ok /\ ~r.applied THEN undeleted \cup {id} ELSE undeleted
          /\ jobResults' = [jobResults EXCEPT ![a].failed = (b > 1 /\ @) \/ ~r.ok]
          /\ at' = [plan |-> a, job |-> b + 1, step |-> "create", id |-> NoId]
    BY <1>4 DEF RollbackJobMigration, NextJob, Cursor
  <2>2. at' \in Cursors /\ at'.step = "create" /\ at'.plan = a /\ at'.job = b + 1
    <3>1. PICK n \in Nat \ {0} : n = b + 1
      BY <1>2
    <3>2. at' = [plan |-> a, job |-> n, step |-> "create", id |-> NoId]
      BY <2>1, <3>1
    <3>3. QED
      BY <1>2, <3>1, <3>2 DEF Cursors
  <2> DEFINE wrong == (b > 1 /\ jobResults[a].failed) \/ ~r.ok
  <2>3. /\ jobResults' \in [DOMAIN Mappings -> Results]
        /\ \A p \in DOMAIN Mappings : /\ jobResults'[p].created = jobResults[p].created
                                      /\ jobResults'[p].verified = jobResults[p].verified
                                      /\ p # a => jobResults'[p] = jobResults[p]
        /\ jobResults'[a].failed = wrong
    <3>1. wrong \in BOOLEAN
      OBVIOUS
    <3>2. jobResults' = [jobResults EXCEPT ![a] = [jobResults[a] EXCEPT !.failed = wrong]]
      BY <2>1
    <3> HIDE DEF wrong
    <3>3. [jobResults[a] EXCEPT !.failed = wrong] \in Results
      BY <1>2, <3>1 DEF Results
    <3>4. QED
      BY <1>1, <1>2, <3>2, <3>3 DEF Results
  <2>4. \A p \in DOMAIN Mappings : Listed(p)' = Listed(p)
    BY <2>3 DEF Listed
  <2>5. vjobs' \subseteq vjobs
    BY <2>1
  <2>6. BackTypes'
    BY <1>1, <2>2, <2>3, <2>5 DEF BackInv, BackTypes
  <2>7. VerifiedInv'
    BY <2>2, <2>3, <2>4 DEF BackInv, VerifiedInv
  <2>8. IdInv'
    BY <1>1, <2>5 DEF BackInv, IdInv, IdOfTemplate
  <2>9. ListedInv'
    BY <1>1, <2>4, <2>5 DEF BackInv, ListedInv
  <2>10. RolledInv'
    <3>1. ASSUME NEW p \in DOMAIN Mappings, NEW k \in DOMAIN jobResults'[p].created,
                 p < at'.plan \/ (p = at'.plan /\ k < at'.job)
          PROVE  Undone(p, k)'
      <4>1. p \in Nat /\ k \in Nat \ {0} /\ jobResults'[p].created = jobResults[p].created
        <5>1. jobResults'[p].created \in Seq(JobIds)
          BY <2>3 DEF Results
        <5>2. QED
          BY <2>3, <5>1, BackupAssumption
      <4>2. CASE p < a \/ (p = a /\ k < b)
        <5>1. Undone(p, k)
          BY <1>1, <4>1, <4>2 DEF BackInv, RolledInv
        <5>2. jobResults[p].failed => jobResults'[p].failed
          <6>1. CASE p # a
            BY <2>3, <6>1
          <6>2. CASE p = a
            <7>1. b > 1
              BY <1>2, <4>1, <4>2, <6>2
            <7>2. QED
              BY <2>3, <6>2, <7>1
          <6>3. QED
            BY <6>1, <6>2
        <5>3. undeleted \subseteq undeleted'
          BY <2>1
        <5>4. QED
          BY <2>5, <4>1, <5>1, <5>2, <5>3 DEF Undone
      <4>3. CASE p = a /\ k = b
        <5>1. CASE ~r.ok
          BY <2>3, <4>3, <5>1 DEF Undone
        <5>2. CASE r.ok /\ r.applied
          BY <2>1, <2>3, <4>1, <4>3, <5>2 DEF Undone
        <5>3. CASE r.ok /\ ~r.applied
          BY <2>1, <2>3, <4>1, <4>3, <5>3 DEF Undone
        <5>4. QED
          BY <5>1, <5>2, <5>3
      <4>4. QED
        BY <1>2, <2>2, <3>1, <4>1, <4>2, <4>3
    <3>2. QED
      BY <1>1, <3>1 DEF RolledInv, CleanRollback
  <2>11. StatusIsWorst'
    BY <1>1, NotJudged
  <2>12. QED
    BY <2>6, <2>7, <2>8, <2>9, <2>10, <2>11 DEF BackInv
<1>5. QED
  BY <1>3, <1>4

\* Every step keeps the invariant of the portability manager.
LEMMA BackStepInv ==
    ASSUME BackInv, [BNext]_bvars
    PROVE  BackInv'
<1>1. CASE PlanFleetMigration
  BY <1>1, PlanFleetInv
<1>2. CASE CreateJob
  BY <1>2, CreateJobInv
<1>3. CASE StartJob
  BY <1>3, StartJobInv
<1>4. CASE NextWorkload
  BY <1>4, NextWorkloadInv
<1>5. CASE AfterExecute \/ ReadJobs \/ ReadPoints \/ ReadRepositories \/ ReadFails \/ AfterValidate
  BY <1>5, StageInv
<1>6. CASE ValidateBackupContinuity
  BY <1>6, ValidateInv
<1>7. CASE ValidateNext
  BY <1>7, ValidateNextInv
<1>8. CASE RollbackJobMigration
  BY <1>8, RollbackInv
<1>9. CASE RollbackEnds
  BY <1>9, RollbackEndsInv
<1>10. CASE Edit
  BY <1>10, EditInv
<1>11. CASE BackupRuns \/ UNCHANGED bvars
  BY <1>11, BackupRunsInv
<1>12. QED
  BY <1>1, <1>2, <1>3, <1>4, <1>5, <1>6, <1>7, <1>8, <1>9, <1>10, <1>11 DEF BNext

\* Nothing is planned or on the server at first.
LEMMA BackInitInv ==
    ASSUME BInit
    PROVE  BackInv
<1>1. /\ vjobs = {} /\ stage = "plan" /\ at = Start /\ jobResults = [i \in DOMAIN Mappings |-> NoResult]
      /\ report = [i \in DOMAIN Mappings |-> "none"]
  BY DEF BInit
<1>2. Start \in Cursors /\ Start.step = "create"
  BY DEF Start, Cursor, Cursors
<1>3. NoResult \in Results /\ NoResult.verified = {}
  <2>1. <<>> \in Seq(JobIds)
    OBVIOUS
  <2>2. QED
    BY <2>1 DEF NoResult, Results
<1>4. BackTypes
  BY <1>1, <1>2, <1>3 DEF BackTypes
<1>5. VerifiedInv
  BY <1>1, <1>2, <1>3 DEF VerifiedInv
<1>6. IdInv /\ ListedInv
  BY <1>1 DEF IdInv, ListedInv
<1>7. RolledInv /\ StatusIsWorst
  BY <1>1 DEF RolledInv, CleanRollback, StatusIsWorst
<1>8. QED
  BY <1>4, <1>5, <1>6, <1>7 DEF BackInv

\* For any number of workloads and jobs that protect them: verified jobs were
\* created, a rollback without errors leaves only jobs whose answers were lost or
\* mistaken, and a continuity report shows the worst that was found
\* (BackupsAreAccounted).
THEOREM BackupsAccounted == BSpec => []BackupsAreAccounted
<1>1. BInit => BackInv
  BY BackInitInv
<1>2. BackInv /\ [BNext]_bvars => BackInv'
  BY BackStepInv
<1>3. BackInv => BackupsAreAccounted
  <2> SUFFICES ASSUME BackInv PROVE BTypeOK
    BY DEF BackInv, RolledInv, BackupsAreAccounted
  <2>2. \A i \in DOMAIN report : report[i] \in Statuses \cup {"none"}
    BY DEF BackInv, BackTypes
  <2>3. DOMAIN jobResults = DOMAIN Mappings
    BY DEF BackInv, BackTypes
  <2>4. QED
    BY <2>2, <2>3 DEF BackInv, VerifiedInv, IdInv, BTypeOK, Listed
<1>4. QED
  BY <1>1, <1>2, <1>3, PTL DEF BSpec

-----------------------------------------------------------------------------
(* Workspace documents (WorkspaceDocuments).                                *)

\* A document, stored or copied, is consistent with itself and with the snapshots
\* and migrations stored.
CopyOK(d) ==
    /\ d \in Documents /\ \A s \in Sources : d.snaps[s] <= snapshots
    /\ Backed(d) /\ FollowsSnapshots(d) /\ Recorded(d)

\* The jobs that make results from discovered workloads.
Assessing == {"graph", "simulation", "plan"}

\* What a writer holds at each step: a consistent copy, and what its kind adds to
\* it.
WriterOK(w) ==
    /\ actor[w].step \in {"idle", "queued", "work", "write"}
    /\ Holds(w) => CopyOK(actor[w].copy)
    /\ actor[w].step \in {"queued", "work"} => actor[w].kind \in JobKinds
    /\ actor[w].step = "write" => actor[w].kind \in JobKinds \cup {"patch", "report"}
    /\ actor[w].step # "idle" /\ actor[w].kind \in JobKinds =>
          actor[w].req.selected \in Selections /\ actor[w].req.scope \in Selections \cup {None}
    /\ actor[w].step = "write" /\ actor[w].kind = "patch" => PatchOK(actor[w].req)
    /\ actor[w].step = "write" /\ actor[w].kind = "discovery" =>
          /\ actor[w].ids \in Snapshots
          /\ \A s \in Sources : actor[w].ids[s] # 0 =>
                actor[w].copy.snaps[s] <= actor[w].ids[s] /\ actor[w].ids[s] <= snapshots
    /\ actor[w].step = "write" /\ actor[w].kind = "plan" =>
          /\ actor[w].plan \in DOMAIN migrations
          /\ migrations[actor[w].plan] = GateOf(actor[w].copy.settings)

\* What a writer holds is the stored document, up to the fields marked dirty.
FreshOK(w) ==
    /\ Holds(w) /\ doc # NoDoc => \A f \in Fields \ dirty[w] : actor[w].copy[f] = doc[f]
    /\ Holds(w) /\ doc = NoDoc => Fields \subseteq dirty[w]

\* Without a race, whoever assesses has something to assess.
BasisOK(w) ==
    ~raced /\ actor[w].step # "idle" /\ actor[w].kind \in Assessing =>
      /\ Holds(w) => Discovered(actor[w].copy) # {}
      /\ ~Holds(w) /\ doc # NoDoc => Discovered(doc) # {}

\* The inductive invariant of the workspace documents.
DocInv ==
    /\ snapshots \in Nat /\ migrations \in Seq(Gates) /\ raced \in BOOLEAN
    /\ actor = [w \in Writers |-> actor[w]] /\ dirty \in [Writers -> SUBSET Fields]
    /\ doc # NoDoc => CopyOK(doc)
    /\ \A w \in Writers : WriterOK(w) /\ FreshOK(w) /\ BasisOK(w)
    /\ AssessedAfterDiscovery

\* handleCreateWorkspace makes a document.
LEMMA NewIsDocument ==
    ASSUME NEW body \in Bodies
    PROVE  NewDocument(body) \in Documents
  BY DocumentAssumption DEF NewDocument, Documents, Snapshots, NoSnapshots, Settings, statusWeight

\* advanceWorkspaceStatus: the higher of two stages.
LEMMA Advances ==
    ASSUME NEW s \in DOMAIN statusWeight, NEW t \in DOMAIN statusWeight
    PROVE  /\ advanceWorkspaceStatus(s, t) \in {s, t}
           /\ statusWeight[advanceWorkspaceStatus(s, t)] >= statusWeight[s]
           /\ statusWeight[advanceWorkspaceStatus(s, t)] >= statusWeight[t]
           /\ statusWeight[s] \in 0 .. 5
           /\ statusWeight[s] = statusWeight[t] => s = t
  BY DEF advanceWorkspaceStatus, statusWeight

\* ApplyGraph: a graph of discovered workloads keeps the copy consistent.
LEMMA GraphApplied ==
    ASSUME DocInv, NEW d, CopyOK(d)
    PROVE  CopyOK(With(d, ApplyGraph(d)))
<1> DEFINE next == advanceWorkspaceStatus(d.status, "graph_ready")
           e == With(d, ApplyGraph(d))
<1>1. d \in Documents /\ d.status \in DOMAIN statusWeight /\ d.snaps \in Snapshots /\ d.snaps # None
  BY DocumentAssumption DEF CopyOK, Documents
<1>2. /\ next \in {d.status, "graph_ready"} /\ next \in DOMAIN statusWeight
      /\ statusWeight[next] >= statusWeight[d.status] /\ statusWeight[next] >= 2
  <2>1. "graph_ready" \in DOMAIN statusWeight /\ statusWeight["graph_ready"] = 2
    BY DEF statusWeight
  <2>2. QED
    BY <1>1, <2>1, Advances
<1>3. /\ e.graph = d.snaps /\ e.status = next /\ e.snaps = d.snaps /\ e.last = d.last
      /\ e.sim = d.sim /\ e.plan = d.plan /\ e.reports = d.reports /\ e.approval = d.approval
  <2> HIDE DEF next
  <2>1. ApplyGraph(d) = [graph |-> d.snaps, status |-> next]
    BY DEF ApplyGraph, next
  <2>2. QED
    BY <2>1 DEF With, Fields
<1>4. e \in Documents
  <2> HIDE DEF next
  <2>1. ApplyGraph(d) = [graph |-> d.snaps, status |-> next]
    BY DEF ApplyGraph, next
  <2>2. QED
    BY <1>1, <1>2, <2>1 DEF With, Fields, Documents
<1> HIDE DEF e, next
<1>5. Backed(e)
  BY <1>1, <1>2, <1>3 DEF CopyOK, Backed, Artifacts, Discovered, WeightOf, statusWeight
<1>6. FollowsSnapshots(e)
  BY <1>1, <1>3 DEF CopyOK, FollowsSnapshots, Artifacts, Base, Snapshots
<1>7. Recorded(e)
  BY <1>3 DEF CopyOK, Recorded
<1>8. QED
  BY <1>1, <1>3, <1>4, <1>5, <1>6, <1>7 DEF CopyOK, e

\* ApplySimulation: a simulation of discovered workloads keeps the copy
\* consistent.
LEMMA SimulationApplied ==
    ASSUME DocInv, NEW d, CopyOK(d), NEW req, req.selected \in Selections,
           req.scope \in Selections \cup {None}
    PROVE  CopyOK(With(d, ApplySimulation(d, req)))
<1> DEFINE next == advanceWorkspaceStatus(d.status, "simulated")
           chosen == IF req.selected # {} THEN req.selected
                     ELSE IF d.selected = {} THEN SimulatedVms(d, req) ELSE d.selected
           e == With(d, ApplySimulation(d, req))
<1>1. d \in Documents /\ d.status \in DOMAIN statusWeight /\ d.snaps \in Snapshots /\ d.snaps # None
  BY DocumentAssumption DEF CopyOK, Documents
<1>2. /\ next \in {d.status, "simulated"} /\ next \in DOMAIN statusWeight
      /\ statusWeight[next] >= statusWeight[d.status] /\ statusWeight[next] >= 3
  <2>1. "simulated" \in DOMAIN statusWeight /\ statusWeight["simulated"] = 3
    BY DEF statusWeight
  <2>2. QED
    BY <1>1, <2>1, Advances
<1>3. chosen \in Selections
  BY <1>1 DEF SimulatedVms, Documents
<1>4. ApplySimulation(d, req) = [selected |-> chosen, sim |-> d.snaps, status |-> next]
  BY DEF ApplySimulation
<1> HIDE DEF next, chosen
<1>5. /\ e.sim = d.snaps /\ e.status = next /\ e.snaps = d.snaps /\ e.last = d.last
      /\ e.graph = d.graph /\ e.plan = d.plan /\ e.reports = d.reports /\ e.approval = d.approval
  BY <1>4 DEF With, Fields
<1>6. e \in Documents
  BY <1>1, <1>2, <1>3, <1>4 DEF With, Fields, Documents
<1> HIDE DEF e
<1>7. Backed(e)
  BY <1>1, <1>2, <1>5 DEF CopyOK, Backed, Artifacts, Discovered, WeightOf, statusWeight
<1>8. FollowsSnapshots(e)
  BY <1>1, <1>5 DEF CopyOK, FollowsSnapshots, Artifacts, Base, Snapshots
<1>9. Recorded(e)
  BY <1>5 DEF CopyOK, Recorded
<1>10. QED
  BY <1>1, <1>5, <1>6, <1>7, <1>8, <1>9 DEF CopyOK, e

\* ApplyPlan: the plan is the saved migration, and the approval entry goes with it.
LEMMA PlanApplied ==
    ASSUME DocInv, NEW d, CopyOK(d), NEW req, req.selected \in Selections,
           NEW id \in DOMAIN migrations, migrations[id] = GateOf(d.settings)
    PROVE  CopyOK(With(d, ApplyPlan(d, req, id)))
<1> DEFINE next == advanceWorkspaceStatus(d.status, "planned")
           chosen == workspaceSelectedWorkloadIDs(d, req.selected)
           made == [id |-> id, base |-> d.snaps, required |-> d.settings.required,
                    gate |-> GateOf(d.settings)]
           entry == syncWorkspacePlanApproval(d)
           e == With(d, ApplyPlan(d, req, id))
<1>1. /\ d \in Documents /\ d.status \in DOMAIN statusWeight /\ d.snaps \in Snapshots
      /\ d.settings \in Settings /\ d.approval \in [status : {None, "pending", "approved", "rejected"}, synced : BOOLEAN]
  BY DEF CopyOK, Documents
<1>2. /\ next \in {d.status, "planned"} /\ next \in DOMAIN statusWeight
      /\ statusWeight[next] >= statusWeight[d.status] /\ statusWeight[next] >= 4
  <2>1. "planned" \in DOMAIN statusWeight /\ statusWeight["planned"] = 4
    BY DEF statusWeight
  <2>2. QED
    BY <1>1, <2>1, Advances
<1>3. chosen \in Selections
  BY <1>1 DEF workspaceSelectedWorkloadIDs, Documents
<1>4. made \in Plans /\ made # None
  <2>1. id \in Nat
    BY DEF DocInv
  <2>2. GateOf(d.settings) \in Gates /\ d.settings.required \in BOOLEAN
    BY <1>1 DEF GateOf, Gates, Settings
  <2>3. made \in Plans
    BY <1>1, <2>1, <2>2 DEF Plans
  <2>4. QED
    BY <2>3, DocumentAssumption
<1>5. /\ entry \in [status : {None, "pending", "approved", "rejected"}, synced : BOOLEAN]
      /\ d.settings.required => entry.status = IF GateOf(d.settings) = "pending" THEN "pending" ELSE "approved"
  BY <1>1 DEF syncWorkspacePlanApproval, GateOf, Settings
<1>6. ApplyPlan(d, req, id) = [selected |-> chosen, plan |-> made, approval |-> entry, status |-> next]
  BY DEF ApplyPlan
<1>7. made.id = id /\ made.base = d.snaps /\ made.required = d.settings.required /\ made.gate = GateOf(d.settings)
  OBVIOUS
<1> HIDE DEF next, chosen, made, entry
<1>8. /\ e.plan = made /\ e.status = next /\ e.snaps = d.snaps /\ e.last = d.last
      /\ e.graph = d.graph /\ e.sim = d.sim /\ e.reports = d.reports /\ e.approval = entry
  BY <1>6 DEF With, Fields
<1>9. e \in Documents
  BY <1>1, <1>2, <1>3, <1>4, <1>5, <1>6 DEF With, Fields, Documents
<1> HIDE DEF e
<1>10. Backed(e)
  BY <1>1, <1>2, <1>4, <1>8 DEF CopyOK, Backed, Artifacts, Discovered, WeightOf, statusWeight
<1>11. FollowsSnapshots(e)
  BY <1>1, <1>7, <1>8 DEF CopyOK, FollowsSnapshots, Artifacts, Base, Snapshots
<1>12. Recorded(e)
  BY <1>5, <1>7, <1>8 DEF Recorded
<1>13. QED
  BY <1>1, <1>8, <1>9, <1>10, <1>11, <1>12 DEF CopyOK, e

\* ApplyDiscovery: newer snapshots than those of the copy, which its results are about.
LEMMA DiscoveryApplied ==
    ASSUME DocInv, NEW d, CopyOK(d), NEW found \in Snapshots,
           \A s \in Sources : found[s] # 0 => d.snaps[s] <= found[s] /\ found[s] <= snapshots
    PROVE  CopyOK(With(d, ApplyDiscovery(d, found)))
<1> DEFINE next == IF found # NoSnapshots THEN advanceWorkspaceStatus(d.status, "discovered") ELSE d.status
           snaps == upsertWorkspaceSnapshot(d.snaps, found)
           last == updateWorkspaceSourceConnectionDiscovery(d.last, found)
           e == With(d, ApplyDiscovery(d, found))
<1>1. /\ d \in Documents /\ d.status \in DOMAIN statusWeight /\ d.snaps \in Snapshots
      /\ d.last \in Snapshots /\ d.graph \in Snapshots \cup {None} /\ d.sim \in Snapshots \cup {None}
      /\ d.plan \in Plans \cup {None}
  BY DEF CopyOK, Documents
<1>2. /\ next \in {d.status, "discovered"} /\ next \in DOMAIN statusWeight
      /\ statusWeight[next] >= statusWeight[d.status]
      /\ found # NoSnapshots => statusWeight[next] >= 1
      /\ found = NoSnapshots => next = d.status
  <2>1. "discovered" \in DOMAIN statusWeight /\ statusWeight["discovered"] = 1 /\ statusWeight[d.status] \in Nat
    BY <1>1 DEF statusWeight
  <2>2. QED
    BY <1>1, <2>1, Advances
<1>3. snaps \in Snapshots /\ last \in Snapshots
  BY <1>1 DEF Snapshots, upsertWorkspaceSnapshot, updateWorkspaceSourceConnectionDiscovery
<1>4. \A s \in Sources : /\ snaps[s] = (IF found[s] # 0 THEN found[s] ELSE d.snaps[s])
                         /\ last[s] = (IF found[s] # 0 THEN found[s] ELSE d.last[s])
  BY DEF upsertWorkspaceSnapshot, updateWorkspaceSourceConnectionDiscovery
<1>5. /\ \A s \in Sources : snaps[s] <= snapshots /\ d.snaps[s] <= snaps[s]
      /\ \A s \in Sources : last[s] # 0 => last[s] = snaps[s]
  <2>1. \A s \in Sources : /\ found[s] \in Nat /\ d.snaps[s] \in Nat /\ d.last[s] \in Nat
                           /\ d.snaps[s] <= snapshots
                           /\ (d.last[s] # 0 => d.last[s] = d.snaps[s])
    BY <1>1 DEF CopyOK, FollowsSnapshots, Snapshots
  <2>2. snapshots \in Nat
    BY DEF DocInv
  <2>3. ASSUME NEW s \in Sources
        PROVE  snaps[s] <= snapshots /\ d.snaps[s] <= snaps[s] /\ (last[s] # 0 => last[s] = snaps[s])
    <3>1. CASE found[s] = 0
      <4>1. snaps[s] = d.snaps[s] /\ last[s] = d.last[s]
        BY <1>4, <3>1
      <4>2. QED
        BY <2>1, <2>2, <4>1
    <3>2. CASE found[s] # 0
      <4>1. snaps[s] = found[s] /\ last[s] = found[s]
        BY <1>4, <3>2
      <4>2. QED
        BY <2>1, <2>2, <3>2, <4>1
    <3>3. QED
      BY <3>1, <3>2
  <2>4. QED
    BY <2>3
<1>6. ApplyDiscovery(d, found) = [snaps |-> snaps, last |-> last, status |-> next]
  BY DEF ApplyDiscovery
<1> HIDE DEF next, snaps, last
<1>7. /\ e.snaps = snaps /\ e.last = last /\ e.status = next /\ e.graph = d.graph /\ e.sim = d.sim
      /\ e.plan = d.plan /\ e.reports = d.reports /\ e.approval = d.approval
  BY <1>6 DEF With, Fields
<1>8. e \in Documents
  BY <1>1, <1>2, <1>3, <1>6 DEF With, Fields, Documents
<1> HIDE DEF e
<1>9. Backed(e)
  <2>1. Discovered(d) \subseteq Discovered(e)
    BY <1>1, <1>7, <1>5 DEF Discovered, Snapshots
  <2>2. found # NoSnapshots => Discovered(e) # {}
    BY <1>4, <1>7 DEF Discovered, NoSnapshots, Snapshots
  <2>3. found = NoSnapshots => Discovered(e) = Discovered(d)
    BY <1>4, <1>7 DEF Discovered, NoSnapshots
  <2>4. Artifacts(e) = Artifacts(d)
    BY <1>7 DEF Artifacts
  <2>5. \A f \in Artifacts(e) : statusWeight[e.status] >= WeightOf[f]
    BY <1>1, <1>2, <1>7, <2>4 DEF CopyOK, Backed, Artifacts, WeightOf, statusWeight
  <2>6. QED
    BY <1>1, <1>2, <1>7, <2>1, <2>2, <2>3, <2>4, <2>5 DEF CopyOK, Backed, statusWeight
<1>10. FollowsSnapshots(e)
  <2>1. \A s \in Sources : \A f \in Artifacts(e) : Base(e, f)[s] \in Nat /\ Base(e, f)[s] <= d.snaps[s]
    BY <1>1, <1>7 DEF CopyOK, FollowsSnapshots, Artifacts, Base, Snapshots, Plans
  <2>2. \A s \in Sources : snaps[s] \in Nat /\ d.snaps[s] \in Nat
    BY <1>1, <1>3 DEF Snapshots
  <2>3. QED
    BY <1>7, <1>5, <2>1, <2>2 DEF FollowsSnapshots
<1>11. Recorded(e)
  BY <1>7 DEF CopyOK, Recorded
<1>12. QED
  BY <1>7, <1>8, <1>5, <1>9, <1>10, <1>11 DEF CopyOK, e

\* ApplyReport: one more report keeps the copy consistent.
LEMMA ReportApplied ==
    ASSUME DocInv, NEW d, CopyOK(d)
    PROVE  CopyOK(With(d, ApplyReport(d)))
<1> DEFINE next == advanceWorkspaceStatus(d.status, "reported")
           e == With(d, ApplyReport(d))
<1>1. d \in Documents /\ d.status \in DOMAIN statusWeight /\ d.snaps \in Snapshots /\ d.reports \in Nat
  BY DEF CopyOK, Documents
<1>2. next = "reported" /\ next \in DOMAIN statusWeight
  BY <1>1 DEF advanceWorkspaceStatus, statusWeight
<1>3. ApplyReport(d) = [reports |-> d.reports + 1, status |-> next]
  BY DEF ApplyReport
<1> HIDE DEF next
<1>4. /\ e.reports = d.reports + 1 /\ e.status = next /\ e.snaps = d.snaps /\ e.last = d.last
      /\ e.graph = d.graph /\ e.sim = d.sim /\ e.plan = d.plan /\ e.approval = d.approval
  BY <1>3 DEF With, Fields
<1>5. e \in Documents
  BY <1>1, <1>2, <1>3 DEF With, Fields, Documents
<1> HIDE DEF e
<1>6. Backed(e)
  BY <1>1, <1>2, <1>4 DEF Backed, Artifacts, WeightOf, statusWeight
<1>7. FollowsSnapshots(e)
  BY <1>4 DEF CopyOK, FollowsSnapshots, Artifacts, Base
<1>8. Recorded(e)
  BY <1>4 DEF CopyOK, Recorded
<1>9. QED
  BY <1>4, <1>5, <1>6, <1>7, <1>8 DEF CopyOK, e

\* A PATCH, once its approval entry is normalised.
LEMMA PatchApplied ==
    ASSUME DocInv, NEW d, CopyOK(d), NEW body, PatchOK(body)
    PROVE  CopyOK(normalizeWorkspace(applyPatch(d, body)))
<1> DEFINE a == applyPatch(d, body)
           e == normalizeWorkspace(a)
<1>1. d \in Documents /\ d.approval \in [status : {None, "pending", "approved", "rejected"}, synced : BOOLEAN]
  BY DEF CopyOK, Documents
<1>2. /\ a.snaps = d.snaps /\ a.graph = d.graph /\ a.sim = d.sim /\ a.plan = d.plan
      /\ a.reports = d.reports /\ a.status = d.status
      /\ a.last = d.last \/ a.last = NoSnapshots
      /\ \/ "approval" \notin DOMAIN body /\ a.approval = d.approval
         \/ /\ "approval" \in DOMAIN body /\ a.approval = body.approval
            /\ body.approval \in [status : {"", "pending", "approved", "rejected"}, synced : {FALSE}]
  BY DEF applyPatch, PatchOK, Fields
<1>3. /\ a.sources \in Seq(Sources) /\ a.target \in BOOLEAN /\ a.settings \in Settings
      /\ a.selected \in Selections /\ a.last \in Snapshots
  BY <1>1 DEF applyPatch, PatchOK, Fields, Documents, NoSnapshots, Snapshots
<1>4. DOMAIN a = Fields /\ a = [f \in Fields |-> a[f]]
  BY DEF applyPatch
<1> HIDE DEF a
<1>5. /\ e.snaps = a.snaps /\ e.graph = a.graph /\ e.sim = a.sim /\ e.plan = a.plan
      /\ e.reports = a.reports /\ e.status = a.status /\ e.last = a.last
      /\ e.sources = a.sources /\ e.target = a.target /\ e.settings = a.settings /\ e.selected = a.selected
      /\ e = [f \in Fields |-> e[f]]
  BY <1>4 DEF normalizeWorkspace, With, Fields
<1>6. /\ e.approval \in [status : {None, "pending", "approved", "rejected"}, synced : BOOLEAN]
      /\ e.approval = d.approval \/ ~e.approval.synced
  <2>1. CASE a.approval.status # ""
    BY <1>1, <1>2, <2>1, DocumentAssumption DEF normalizeWorkspace
  <2>2. CASE a.approval.status = ""
    <3>1. e.approval = [status |-> "pending", synced |-> a.approval.synced]
      BY <2>2 DEF normalizeWorkspace, With, Fields
    <3>2. a.approval.synced = FALSE
      BY <1>1, <1>2, <2>2, DocumentAssumption
    <3>3. e.approval = [status |-> "pending", synced |-> FALSE]
      BY <3>1, <3>2
    <3>4. QED
      BY <3>3
  <2>3. QED
    BY <2>1, <2>2
<1> HIDE DEF e
<1>7. /\ e.snaps = d.snaps /\ e.graph = d.graph /\ e.sim = d.sim /\ e.plan = d.plan
      /\ e.reports = d.reports /\ e.status = d.status
  BY <1>2, <1>5
<1>8. e.last = d.last \/ e.last = NoSnapshots
  BY <1>2, <1>5
<1>9. e \in Documents
  <2>1. /\ d.snaps \in Snapshots /\ d.graph \in Snapshots \cup {None} /\ d.sim \in Snapshots \cup {None}
        /\ d.plan \in Plans \cup {None} /\ d.reports \in Nat /\ d.status \in DOMAIN statusWeight
    BY <1>1 DEF Documents
  <2>2. /\ e.sources \in Seq(Sources) /\ e.target \in BOOLEAN /\ e.settings \in Settings
        /\ e.selected \in Selections /\ e.last \in Snapshots
    BY <1>3, <1>5
  <2>3. DOMAIN e = Fields
    BY <1>5
  <2>4. QED
    BY <1>5, <1>6, <1>7, <2>1, <2>2, <2>3 DEF Documents, Fields
<1>10. Backed(e)
  BY <1>7 DEF CopyOK, Backed, Artifacts, Discovered
<1>11. FollowsSnapshots(e)
  BY <1>7, <1>8 DEF CopyOK, FollowsSnapshots, Artifacts, Base, NoSnapshots
<1>12. Recorded(e)
  BY <1>6, <1>7 DEF CopyOK, Recorded
<1>13. CopyOK(e)
  BY <1>7, <1>9, <1>10, <1>11, <1>12 DEF CopyOK
<1>14. QED
  BY <1>13 DEF e, a

\* A document is in normal form already.
LEMMA NormalDocument ==
    ASSUME NEW d \in Documents
    PROVE  normalizeWorkspace(d) = d
  BY DocumentAssumption DEF normalizeWorkspace, Documents

\* What a writer stores is a consistent document again.
LEMMA Written ==
    ASSUME DocInv, NEW w \in Writers, actor[w].step = "write"
    PROVE  CopyOK(normalizeWorkspace(Apply(actor[w])))
<1>1. WriterOK(w) /\ Holds(w) /\ CopyOK(actor[w].copy)
  BY DEF DocInv, WriterOK, Holds
<1>2. actor[w].kind \in {"discovery", "graph", "simulation", "plan", "patch", "report"}
  BY <1>1 DEF WriterOK, JobKinds
<1>3. ASSUME NEW e, CopyOK(e) PROVE CopyOK(normalizeWorkspace(e))
  BY <1>3, NormalDocument DEF CopyOK
<1>4. CASE actor[w].kind = "patch"
  <2>1. PatchOK(actor[w].req) /\ Apply(actor[w]) = applyPatch(actor[w].copy, actor[w].req)
    BY <1>1, <1>4 DEF WriterOK, Apply
  <2>2. QED
    BY <1>1, <2>1, PatchApplied
<1>5. CASE actor[w].kind = "discovery"
  <2>1. /\ actor[w].ids \in Snapshots
        /\ \A s \in Sources : actor[w].ids[s] # 0 =>
              actor[w].copy.snaps[s] <= actor[w].ids[s] /\ actor[w].ids[s] <= snapshots
        /\ Apply(actor[w]) = With(actor[w].copy, ApplyDiscovery(actor[w].copy, actor[w].ids))
    BY <1>1, <1>5 DEF WriterOK, Apply
  <2>2. QED
    BY <1>1, <1>3, <2>1, DiscoveryApplied
<1>6. CASE actor[w].kind = "graph"
  <2>1. Apply(actor[w]) = With(actor[w].copy, ApplyGraph(actor[w].copy))
    BY <1>6 DEF Apply
  <2>2. QED
    BY <1>1, <1>3, <2>1, GraphApplied
<1>7. CASE actor[w].kind = "simulation"
  <2>1. /\ actor[w].req.selected \in Selections /\ actor[w].req.scope \in Selections \cup {None}
        /\ Apply(actor[w]) = With(actor[w].copy, ApplySimulation(actor[w].copy, actor[w].req))
    BY <1>1, <1>7 DEF WriterOK, Apply, JobKinds
  <2>2. QED
    BY <1>1, <1>3, <2>1, SimulationApplied
<1>8. CASE actor[w].kind = "plan"
  <2>1. /\ actor[w].req.selected \in Selections /\ actor[w].plan \in DOMAIN migrations
        /\ migrations[actor[w].plan] = GateOf(actor[w].copy.settings)
        /\ Apply(actor[w]) = With(actor[w].copy, ApplyPlan(actor[w].copy, actor[w].req, actor[w].plan))
    BY <1>1, <1>8 DEF WriterOK, Apply, JobKinds
  <2>2. QED
    BY <1>1, <1>3, <2>1, PlanApplied
<1>9. CASE actor[w].kind = "report"
  <2>1. Apply(actor[w]) = With(actor[w].copy, ApplyReport(actor[w].copy))
    BY <1>9 DEF Apply
  <2>2. QED
    BY <1>1, <1>3, <2>1, ReportApplied
<1>10. QED
  BY <1>2, <1>4, <1>5, <1>6, <1>7, <1>8, <1>9

\* A writer changes what its remit names, and the status only upwards.
LEMMA RemitKept ==
    ASSUME DocInv, NEW w \in Writers, actor[w].step = "write"
    PROVE  LET d == actor[w].copy
               e == normalizeWorkspace(Apply(actor[w]))
           IN  /\ \A f \in Fields \ (Remit(actor[w]) \cup {"status"}) : e[f] = d[f]
               /\ statusWeight[e.status] >= statusWeight[d.status]
<1> DEFINE a == actor[w]
           d == actor[w].copy
           e == normalizeWorkspace(Apply(actor[w]))
<1>1. WriterOK(w) /\ CopyOK(d) /\ d \in Documents /\ d.status \in DOMAIN statusWeight
      /\ statusWeight[d.status] \in 0 .. 5
  BY Advances DEF DocInv, WriterOK, Holds, CopyOK, Documents
<1>2. a.kind \in {"discovery", "graph", "simulation", "plan", "patch", "report"}
  BY <1>1 DEF WriterOK, JobKinds
<1>3. CopyOK(e)
  BY Written
<1>4. a.kind # "patch" => e = Apply(a)
  <2>1. ASSUME a.kind # "patch" PROVE Apply(a).approval.status # ""
    <3>1. Apply(a).approval \in {d.approval, syncWorkspacePlanApproval(d)}
      BY <1>2, <2>1 DEF Apply, With, Fields, ApplyDiscovery, ApplyGraph, ApplySimulation, ApplyPlan, ApplyReport
    <3>2. d.approval.status # "" /\ syncWorkspacePlanApproval(d).status # ""
      BY <1>1, DocumentAssumption DEF Documents, syncWorkspacePlanApproval
    <3>3. QED
      BY <3>1, <3>2
  <2>2. QED
    BY <2>1 DEF normalizeWorkspace
<1>5. \A t \in DOMAIN statusWeight : statusWeight[advanceWorkspaceStatus(d.status, t)] >= statusWeight[d.status]
  BY <1>1, Advances
<1>6. CASE a.kind = "patch"
  <2>1. \A f \in Fields \ Remit(a) : applyPatch(d, a.req)[f] = d[f]
    BY <1>6 DEF Remit, applyPatch
  <2>2. Apply(a) = applyPatch(d, a.req) /\ "status" \notin Remit(a)
    BY <1>1, <1>6 DEF Apply, Remit, WriterOK, PatchOK
  <2>3. \A f \in Fields \ {"approval"} : e[f] = applyPatch(d, a.req)[f]
    BY <2>2 DEF normalizeWorkspace, With
  <2>4. "approval" \notin Remit(a) => e.approval = d.approval
    <3>1. ASSUME "approval" \notin Remit(a) PROVE e.approval = d.approval
      <4>1. Apply(a).approval = d.approval
        BY <2>1, <2>2, <3>1 DEF Fields
      <4>2. d.approval.status # ""
        BY <1>1, DocumentAssumption DEF Documents
      <4>3. QED
        BY <4>1, <4>2 DEF normalizeWorkspace
    <3>2. QED
      BY <3>1
  <2>5. e.status = d.status
    BY <2>1, <2>2, <2>3 DEF Fields
  <2>6. QED
    BY <1>1, <2>1, <2>3, <2>4, <2>5
<1>7. CASE a.kind = "discovery"
  <2>1. e = With(d, ApplyDiscovery(d, a.ids)) /\ Remit(a) = {"snaps", "last"}
    BY <1>4, <1>7 DEF Apply, Remit
  <2>2. \A f \in Fields \ (Remit(a) \cup {"status"}) : e[f] = d[f]
    BY <2>1 DEF With, ApplyDiscovery
  <2>3. e.status \in {d.status, advanceWorkspaceStatus(d.status, "discovered")}
    BY <2>1 DEF With, ApplyDiscovery, Fields
  <2>4. QED
    BY <1>1, <1>5, <2>2, <2>3 DEF statusWeight
<1>8. CASE a.kind = "graph"
  <2>1. e = With(d, ApplyGraph(d)) /\ Remit(a) = {"graph"}
    BY <1>4, <1>8 DEF Apply, Remit
  <2>2. \A f \in Fields \ (Remit(a) \cup {"status"}) : e[f] = d[f]
    BY <2>1 DEF With, ApplyGraph
  <2>3. e.status = advanceWorkspaceStatus(d.status, "graph_ready")
    BY <2>1 DEF With, ApplyGraph, Fields
  <2>4. QED
    BY <1>5, <2>2, <2>3 DEF statusWeight
<1>9. CASE a.kind = "simulation"
  <2>1. e = With(d, ApplySimulation(d, a.req))
    BY <1>4, <1>9 DEF Apply
  <2>2. \A f \in Fields \ {"selected", "sim", "status"} : e[f] = d[f]
    BY <2>1 DEF With, ApplySimulation
  <2>3. "selected" \notin Remit(a) => e.selected = d.selected
    BY <1>9, <2>1 DEF With, ApplySimulation, Fields, Remit
  <2>4. e.status = advanceWorkspaceStatus(d.status, "simulated")
    BY <2>1 DEF With, ApplySimulation, Fields
  <2>5. "sim" \in Remit(a)
    BY <1>9 DEF Remit
  <2>6. QED
    BY <1>5, <2>2, <2>3, <2>4, <2>5 DEF statusWeight
<1>10. CASE a.kind = "plan"
  <2>1. e = With(d, ApplyPlan(d, a.req, a.plan))
    BY <1>4, <1>10 DEF Apply
  <2>2. \A f \in Fields \ {"selected", "plan", "approval", "status"} : e[f] = d[f]
    BY <2>1 DEF With, ApplyPlan
  <2>3. "selected" \notin Remit(a) => e.selected = d.selected
    BY <1>10, <2>1 DEF With, ApplyPlan, Fields, Remit, workspaceSelectedWorkloadIDs
  <2>4. e.status = advanceWorkspaceStatus(d.status, "planned")
    BY <2>1 DEF With, ApplyPlan, Fields
  <2>5. "plan" \in Remit(a) /\ "approval" \in Remit(a)
    BY <1>10 DEF Remit
  <2>6. QED
    BY <1>5, <2>2, <2>3, <2>4, <2>5 DEF statusWeight
<1>11. CASE a.kind = "report"
  <2>1. e = With(d, ApplyReport(d)) /\ Remit(a) = {"reports"}
    BY <1>4, <1>11 DEF Apply, Remit
  <2>2. \A f \in Fields \ (Remit(a) \cup {"status"}) : e[f] = d[f]
    BY <2>1 DEF With, ApplyReport
  <2>3. e.status = advanceWorkspaceStatus(d.status, "reported")
    BY <2>1 DEF With, ApplyReport, Fields
  <2>4. QED
    BY <1>5, <2>2, <2>3 DEF statusWeight
<1>12. QED
  BY <1>2, <1>6, <1>7, <1>8, <1>9, <1>10, <1>11

\* What SaveDiscovery and SaveMigration have stored only grows.
Later ==
    /\ snapshots' \in Nat /\ snapshots <= snapshots' /\ migrations' \in Seq(Gates)
    /\ \A i \in DOMAIN migrations : i \in DOMAIN migrations' /\ migrations'[i] = migrations[i]

\* Nothing stored, or a plan appended.
LEMMA StoreGrows ==
    ASSUME DocInv, snapshots' \in Nat, snapshots <= snapshots',
           \/ UNCHANGED migrations
           \/ \E g \in Gates : migrations' = Append(migrations, g)
    PROVE  Later
<1>1. CASE UNCHANGED migrations
  BY <1>1 DEF Later, DocInv
<1>2. CASE \E g \in Gates : migrations' = Append(migrations, g)
  BY <1>2 DEF Later, DocInv
<1>3. QED
  BY <1>1, <1>2

\* A consistent copy stays consistent.
LEMMA CopyLater ==
    ASSUME DocInv, Later, NEW d, CopyOK(d)
    PROVE  CopyOK(d)'
<1>1. \A s \in Sources : d.snaps[s] <= snapshots'
  <2>1. \A s \in Sources : d.snaps[s] \in Nat /\ d.snaps[s] <= snapshots
    BY DEF CopyOK, Documents, Snapshots
  <2>2. QED
    BY <2>1 DEF Later, DocInv
<1>2. Recorded(d)'
  BY DEF CopyOK, Recorded, Later
<1>3. QED
  BY <1>1, <1>2 DEF CopyOK

\* What another writer holds stays consistent while more is stored.
LEMMA OtherWriter ==
    ASSUME DocInv, Later, NEW x \in Writers, actor'[x] = actor[x]
    PROVE  WriterOK(x)'
<1>1. WriterOK(x)
  BY DEF DocInv
<1>2. PICK a : a = actor[x]
  OBVIOUS
<1>3. ASSUME Holds(x) PROVE CopyOK(actor[x].copy)'
  <2>1. CopyOK(a.copy)'
    BY <1>1, <1>2, <1>3, CopyLater DEF WriterOK
  <2>2. QED
    BY <1>2, <2>1 DEF CopyOK, Recorded
<1>4. Holds(x)' <=> Holds(x)
  BY DEF Holds
<1>5. ASSUME actor[x].step = "write", actor[x].kind = "discovery", NEW s \in Sources, actor[x].ids[s] # 0
      PROVE  actor[x].copy.snaps[s] <= actor[x].ids[s] /\ actor[x].ids[s] <= snapshots'
  <2>1. actor[x].ids[s] \in Nat /\ actor[x].ids[s] <= snapshots /\ actor[x].copy.snaps[s] <= actor[x].ids[s]
    BY <1>1, <1>5 DEF WriterOK, Snapshots
  <2>2. QED
    BY <2>1 DEF Later, DocInv
<1>6. ASSUME actor[x].step = "write", actor[x].kind = "plan"
      PROVE  actor[x].plan \in DOMAIN migrations' /\ migrations'[actor[x].plan] = GateOf(actor[x].copy.settings)
  BY <1>1, <1>6 DEF WriterOK, Later
<1>7. /\ actor[x].step = "write" /\ actor[x].kind = "discovery" => actor[x].ids \in Snapshots
      /\ actor[x].step \in {"idle", "queued", "work", "write"}
      /\ actor[x].step \in {"queued", "work"} => actor[x].kind \in JobKinds
      /\ actor[x].step = "write" => actor[x].kind \in JobKinds \cup {"patch", "report"}
      /\ actor[x].step # "idle" /\ actor[x].kind \in JobKinds =>
            actor[x].req.selected \in Selections /\ actor[x].req.scope \in Selections \cup {None}
      /\ actor[x].step = "write" /\ actor[x].kind = "patch" => PatchOK(actor[x].req)
  BY <1>1 DEF WriterOK
<1>8. (Holds(x) => CopyOK(actor[x].copy))'
  BY <1>3, <1>4
<1>9. QED
  BY <1>5, <1>6, <1>7, <1>8 DEF WriterOK

\* A step of one writer that leaves the stored document alone.
LEMMA WriterStep ==
    ASSUME DocInv, Later, NEW w \in Writers, UNCHANGED <<doc, raced>>,
           actor' = [x \in Writers |-> actor'[x]], dirty' \in [Writers -> SUBSET Fields],
           \A x \in Writers \ {w} : actor'[x] = actor[x] /\ dirty'[x] = dirty[x],
           WriterOK(w)', FreshOK(w)', BasisOK(w)'
    PROVE  DocInv'
<1>1. (doc # NoDoc => CopyOK(doc))'
  <2>1. PICK d : d = doc
    OBVIOUS
  <2>2. doc # NoDoc => CopyOK(d)'
    BY <2>1, CopyLater DEF DocInv
  <2>3. QED
    BY <2>1, <2>2 DEF CopyOK, Recorded
<1>2. ASSUME NEW x \in Writers PROVE (WriterOK(x) /\ FreshOK(x) /\ BasisOK(x))'
  <2>1. CASE x = w
    BY <2>1
  <2>2. CASE x # w
    <3>1. actor'[x] = actor[x] /\ dirty'[x] = dirty[x] /\ WriterOK(x)'
      BY <2>2, OtherWriter
    <3>2. FreshOK(x) /\ BasisOK(x)
      BY DEF DocInv
    <3>3. FreshOK(x)'
      BY <3>1, <3>2 DEF FreshOK, Holds
    <3>4. BasisOK(x)'
      BY <3>1, <3>2 DEF BasisOK, Holds, Discovered
    <3>5. QED
      BY <3>1, <3>3, <3>4
  <2>3. QED
    BY <2>1, <2>2
<1>3. AssessedAfterDiscovery'
  BY DEF DocInv, AssessedAfterDiscovery, Artifacts, Discovered
<1>4. QED
  BY <1>1, <1>2, <1>3 DEF DocInv, Later

\* A writer that ends holds nothing.
LEMMA Ended ==
    ASSUME NEW w \in Writers, actor'[w] = IdleWriter
    PROVE  (WriterOK(w) /\ FreshOK(w) /\ BasisOK(w))'
  BY DEF WriterOK, FreshOK, BasisOK, Holds, IdleWriter, Writer

\* A new document is consistent, and has no results.
LEMMA NewConsistent ==
    ASSUME snapshots \in Nat, NEW body \in Bodies
    PROVE  CopyOK(NewDocument(body)) /\ Artifacts(NewDocument(body)) = {}
<1> DEFINE e == NewDocument(body)
<1>1. e \in Documents
  BY NewIsDocument
<1>2. /\ e.snaps = NoSnapshots /\ e.last = NoSnapshots /\ e.graph = None /\ e.sim = None /\ e.plan = None
      /\ e.reports = 0 /\ e.status = "draft"
  BY DEF NewDocument
<1> HIDE DEF e
<1>3. Artifacts(e) = {} /\ Discovered(e) = {}
  BY <1>2 DEF Artifacts, Discovered, NoSnapshots
<1>4. Backed(e)
  BY <1>2, <1>3 DEF Backed
<1>5. FollowsSnapshots(e)
  BY <1>2, <1>3 DEF FollowsSnapshots, NoSnapshots
<1>6. Recorded(e)
  BY <1>2 DEF Recorded
<1>7. \A s \in Sources : e.snaps[s] <= snapshots
  BY <1>2 DEF NoSnapshots
<1>8. QED
  BY <1>1, <1>3, <1>4, <1>5, <1>6, <1>7 DEF CopyOK, e

\* A job is queued by a request that looked at the document.
LEMMA QueueJobInv ==
    ASSUME DocInv, NEW w \in Writers, QueueJob(w)
    PROVE  DocInv'
<1>1. PICK kind \in JobKinds, selected \in Selections, scope \in Selections \cup {None},
           sources \in {{}} \cup {{s} : s \in Sources} :
         LET req == [selected |-> selected, scope |-> scope, sources |-> sources] IN
         /\ validateWorkspaceJobRequest(doc, kind, req)
         /\ actor' = [actor EXCEPT ![w] = Writer("queued", kind, req, None)]
  BY DEF QueueJob
<1> DEFINE asked == [selected |-> selected, scope |-> scope, sources |-> sources]
<1>2. /\ actor'[w] = Writer("queued", kind, asked, None) /\ actor' = [x \in Writers |-> actor'[x]]
      /\ \A x \in Writers \ {w} : actor'[x] = actor[x]
  BY <1>1 DEF DocInv
<1>3. kind # "discovery" => Discovered(doc) # {}
  BY <1>1 DEF validateWorkspaceJobRequest
<1>4. asked.selected \in Selections /\ asked.scope \in Selections \cup {None}
  OBVIOUS
<1> HIDE DEF asked
<1>5. /\ actor'[w].step = "queued" /\ actor'[w].kind = kind /\ actor'[w].req = asked
  BY <1>2 DEF Writer
<1>6. Later
  BY StoreGrows DEF QueueJob, DocInv
<1>7. WriterOK(w)' /\ FreshOK(w)'
  BY <1>4, <1>5 DEF WriterOK, FreshOK, Holds
<1>8. BasisOK(w)'
  BY <1>3, <1>5 DEF BasisOK, Holds, QueueJob, Assessing, Discovered
<1>9. QED
  BY <1>2, <1>6, <1>7, <1>8, WriterStep DEF QueueJob, DocInv

\* A job that begins reads the document, or ends because there is none.
LEMMA ReadDocumentInv ==
    ASSUME DocInv, NEW w \in Writers, ReadDocument(w)
    PROVE  DocInv'
<1>1. Later /\ UNCHANGED <<doc, raced>> /\ dirty' \in [Writers -> SUBSET Fields] /\ dirty'[w] = {}
      /\ \A x \in Writers \ {w} : actor'[x] = actor[x] /\ dirty'[x] = dirty[x]
  <2>1. Later
    BY StoreGrows DEF ReadDocument, DocInv
  <2>2. QED
    BY <2>1 DEF ReadDocument, DocInv, Answered
<1>2. actor' = [x \in Writers |-> actor'[x]]
  BY DEF ReadDocument, DocInv, Answered
<1>3. WriterOK(w) /\ BasisOK(w) /\ actor[w].kind \in JobKinds
  BY DEF DocInv, ReadDocument, WriterOK
<1>4. CASE doc = NoDoc
  <2>1. actor'[w] = IdleWriter
    BY <1>4 DEF ReadDocument, Answered, DocInv
  <2>2. QED
    BY <1>1, <1>2, <2>1, Ended, WriterStep
<1>5. CASE doc # NoDoc
  <2>1. actor'[w] = Writer("work", actor[w].kind, actor[w].req, doc)
    BY <1>5 DEF ReadDocument, DocInv
  <2>2. actor'[w].step = "work" /\ actor'[w].kind = actor[w].kind /\ actor'[w].req = actor[w].req /\ actor'[w].copy = doc
    BY <2>1 DEF Writer
  <2>3. CopyOK(actor[w].copy)'
    <3>1. PICK d : d = doc
      OBVIOUS
    <3>2. CopyOK(d)'
      BY <1>1, <1>5, <3>1, CopyLater DEF DocInv
    <3>3. QED
      BY <2>2, <3>1, <3>2 DEF CopyOK, Recorded
  <2>4. WriterOK(w)'
    BY <1>3, <2>2, <2>3 DEF WriterOK, ReadDocument
  <2>5. FreshOK(w)'
    BY <1>1, <1>5, <2>2 DEF FreshOK
  <2>6. BasisOK(w)'
    BY <1>1, <1>3, <1>5, <2>2 DEF BasisOK, Holds, ReadDocument, Discovered
  <2>7. QED
    BY <1>1, <1>2, <2>4, <2>5, <2>6, WriterStep
<1>6. QED
  BY <1>4, <1>5

\* A PATCH or a report request reads the document; its copy is that of this
\* moment.
LEMMA RequestRead ==
    ASSUME DocInv, NEW w \in Writers, ReadRequest(w), NEW kind \in {"patch", "report"}, NEW req,
           kind = "patch" => PatchOK(req),
           actor' = [actor EXCEPT ![w] = Writer("write", kind, req, doc)]
    PROVE  DocInv'
<1>1. Later /\ UNCHANGED <<doc, raced>> /\ doc # NoDoc /\ dirty' \in [Writers -> SUBSET Fields] /\ dirty'[w] = {}
      /\ \A x \in Writers \ {w} : actor'[x] = actor[x] /\ dirty'[x] = dirty[x]
  <2>1. Later
    BY StoreGrows DEF ReadRequest, DocInv
  <2>2. QED
    BY <2>1 DEF ReadRequest, DocInv
<1>2. actor' = [x \in Writers |-> actor'[x]] /\ actor'[w] = Writer("write", kind, req, doc)
  BY DEF DocInv
<1>3. actor'[w].step = "write" /\ actor'[w].kind = kind /\ actor'[w].req = req /\ actor'[w].copy = doc
  BY <1>2 DEF Writer
<1>4. CopyOK(actor[w].copy)'
  <2>1. PICK d : d = doc
    OBVIOUS
  <2>2. CopyOK(d)'
    BY <1>1, <2>1, CopyLater DEF DocInv
  <2>3. QED
    BY <1>3, <2>1, <2>2 DEF CopyOK, Recorded
<1>5. WriterOK(w)'
  BY <1>3, <1>4 DEF WriterOK, JobKinds
<1>6. FreshOK(w)'
  BY <1>1, <1>3 DEF FreshOK
<1>7. BasisOK(w)'
  BY <1>3 DEF BasisOK, Assessing
<1>8. QED
  BY <1>1, <1>2, <1>5, <1>6, <1>7, WriterStep

\* The requests that read the document and write it in one call keep the
\* invariant.
LEMMA ReadRequestInv ==
    ASSUME DocInv, NEW w \in Writers, ReadRequest(w)
    PROVE  DocInv'
<1>1. CASE \E body \in Patches : actor' = [actor EXCEPT ![w] = Writer("write", "patch", body, doc)]
  <2>1. PICK body \in Patches : actor' = [actor EXCEPT ![w] = Writer("write", "patch", body, doc)]
    BY <1>1
  <2>2. PatchOK(body)
    BY DocumentAssumption
  <2>3. QED
    BY <2>1, <2>2, RequestRead
<1>2. CASE actor' = [actor EXCEPT ![w] = Writer("write", "report", None, doc)]
  BY <1>2, RequestRead
<1>3. QED
  BY <1>1, <1>2 DEF ReadRequest

\* A step that a writer with a copy takes without touching the copy.
LEMMA WorkStep ==
    ASSUME DocInv, Later, NEW w \in Writers, UNCHANGED <<doc, dirty, raced>>,
           actor' = [x \in Writers |-> actor'[x]], \A x \in Writers \ {w} : actor'[x] = actor[x],
           actor[w].step = "work", actor'[w].step = "write",
           actor'[w].kind = actor[w].kind, actor'[w].req = actor[w].req, actor'[w].copy = actor[w].copy,
           actor[w].kind = "discovery" =>
              /\ actor'[w].ids \in Snapshots
              /\ \A s \in Sources : actor'[w].ids[s] # 0 =>
                    snapshots <= actor'[w].ids[s] /\ actor'[w].ids[s] <= snapshots',
           actor[w].kind = "plan" =>
              /\ actor'[w].plan \in DOMAIN migrations'
              /\ migrations'[actor'[w].plan] = GateOf(actor[w].copy.settings)
    PROVE  DocInv'
<1>1. WriterOK(w) /\ FreshOK(w) /\ BasisOK(w) /\ Holds(w) /\ CopyOK(actor[w].copy)
      /\ actor[w].kind \in JobKinds
  BY DEF DocInv, WriterOK, Holds
<1>2. CopyOK(actor[w].copy)'
  <2>1. PICK d : d = actor[w].copy
    OBVIOUS
  <2>2. CopyOK(d)'
    BY <1>1, <2>1, CopyLater
  <2>3. QED
    BY <2>1, <2>2 DEF CopyOK, Recorded
<1>3. ASSUME actor[w].kind = "discovery", NEW s \in Sources, actor'[w].ids[s] # 0
      PROVE  actor[w].copy.snaps[s] <= actor'[w].ids[s]
  <2>1. actor[w].copy.snaps[s] \in Nat /\ actor[w].copy.snaps[s] <= snapshots
    BY <1>1 DEF CopyOK, Documents, Snapshots
  <2>2. actor'[w].ids[s] \in Nat /\ snapshots <= actor'[w].ids[s] /\ snapshots \in Nat
    BY <1>3 DEF Snapshots, DocInv
  <2>3. QED
    BY <2>1, <2>2
<1>4. WriterOK(w)'
  BY <1>1, <1>2, <1>3 DEF WriterOK, JobKinds
<1>5. FreshOK(w)' /\ BasisOK(w)'
  BY <1>1 DEF FreshOK, BasisOK, Holds, Discovered
<1>6. QED
  BY <1>4, <1>5, WriterStep DEF DocInv

\* A writer that fails, or finds nothing to do, drops its copy.
LEMMA GivesUp ==
    ASSUME DocInv, NEW w \in Writers, Answered(w), UNCHANGED <<doc, raced, snapshots, migrations>>,
           dirty' = dirty \/ dirty' = [dirty EXCEPT ![w] = {}]
    PROVE  DocInv'
<1>1. Later
  BY StoreGrows DEF DocInv
<1>2. /\ actor'[w] = IdleWriter /\ actor' = [x \in Writers |-> actor'[x]]
      /\ dirty' \in [Writers -> SUBSET Fields]
      /\ \A x \in Writers \ {w} : actor'[x] = actor[x] /\ dirty'[x] = dirty[x]
  BY DEF DocInv, Answered
<1>3. QED
  BY <1>1, <1>2, Ended, WriterStep

\* A graph or a simulation is made of the copy; nothing is stored yet.
LEMMA AssessInv ==
    ASSUME DocInv, NEW w \in Writers, Assess(w)
    PROVE  DocInv'
<1>1. CASE Answered(w)
  BY <1>1, GivesUp DEF Assess
<1>2. CASE ~Answered(w)
  <2>1. actor' = [actor EXCEPT ![w] = Writer("write", actor[w].kind, actor[w].req, actor[w].copy)]
    BY <1>2 DEF Assess
  <2>2. /\ actor' = [x \in Writers |-> actor'[x]] /\ \A x \in Writers \ {w} : actor'[x] = actor[x]
        /\ actor'[w] = Writer("write", actor[w].kind, actor[w].req, actor[w].copy)
    BY <2>1 DEF DocInv
  <2>3. Later
    BY StoreGrows DEF Assess, DocInv
  <2>4. /\ actor'[w].step = "write" /\ actor'[w].kind = actor[w].kind /\ actor'[w].req = actor[w].req
        /\ actor'[w].copy = actor[w].copy
    BY <2>2 DEF Writer
  <2>5. actor[w].step = "work" /\ actor[w].kind \in {"graph", "simulation"} /\ UNCHANGED <<doc, dirty, raced>>
    BY DEF Assess
  <2>6. QED
    BY <2>2, <2>3, <2>4, <2>5, WorkStep
<1>3. QED
  BY <1>1, <1>2

\* SaveMigration stores the plan, with the gate of the copy's settings, before the
\* document names it.
LEMMA SavePlanInv ==
    ASSUME DocInv, NEW w \in Writers, SavePlan(w)
    PROVE  DocInv'
<1>1. CASE Answered(w) /\ UNCHANGED migrations
  BY <1>1, GivesUp DEF SavePlan
<1>2. CASE ~(Answered(w) /\ UNCHANGED migrations)
  <2>0. WriterOK(w) /\ Holds(w) /\ actor[w].copy \in Documents
    BY DEF DocInv, WriterOK, Holds, SavePlan, CopyOK
  <2>1. GateOf(actor[w].copy.settings) \in Gates
    BY DEF GateOf, Gates
  <2>2. /\ migrations' = Append(migrations, GateOf(actor[w].copy.settings))
        /\ actor' = [actor EXCEPT ![w] = [Writer("write", "plan", actor[w].req, actor[w].copy) EXCEPT
                                            !.plan = Len(migrations) + 1]]
    BY <1>2 DEF SavePlan
  <2>3. /\ actor' = [x \in Writers |-> actor'[x]] /\ \A x \in Writers \ {w} : actor'[x] = actor[x]
        /\ actor'[w] = [Writer("write", "plan", actor[w].req, actor[w].copy) EXCEPT !.plan = Len(migrations) + 1]
    BY <2>2 DEF DocInv
  <2>4. /\ actor'[w].step = "write" /\ actor'[w].kind = "plan" /\ actor'[w].req = actor[w].req
        /\ actor'[w].copy = actor[w].copy /\ actor'[w].plan = Len(migrations) + 1
    BY <2>3 DEF Writer
  <2>5. Later
    BY <2>1, <2>2, StoreGrows DEF SavePlan, DocInv
  <2>6. /\ Len(migrations) + 1 \in DOMAIN migrations'
        /\ migrations'[Len(migrations) + 1] = GateOf(actor[w].copy.settings)
    BY <2>1, <2>2 DEF DocInv
  <2>7. actor[w].step = "work" /\ actor[w].kind = "plan" /\ UNCHANGED <<doc, dirty, raced>>
    BY DEF SavePlan
  <2>8. QED
    BY <2>3, <2>4, <2>5, <2>6, <2>7, WorkStep
<1>3. QED
  BY <1>1, <1>2

\* SaveDiscovery stores one snapshot per source that answered; the copy's are all
\* older.
LEMMA DiscoverSourcesInv ==
    ASSUME DocInv, NEW w \in Writers, DiscoverSources(w)
    PROVE  DocInv'
<1> DEFINE c == actor[w].copy
           places == workspaceSourceConnections(c, actor[w].req.sources)
<1>1. CASE Answered(w) /\ UNCHANGED snapshots
  BY <1>1, GivesUp DEF DiscoverSources
<1>2. CASE ~(Answered(w) /\ UNCHANGED snapshots)
  <2>1. PICK answered \in SUBSET places :
          LET mine(t) == {i \in answered : c.sources[LastWithAddress(c, places, i)] = t}
              upTo(t) == {i \in answered : \E j \in mine(t) : i <= j}
              new == [t \in Sources |-> IF mine(t) = {} THEN 0 ELSE snapshots + Cardinality(upTo(t))]
          IN  /\ snapshots' = snapshots + Cardinality(answered)
              /\ actor' = [actor EXCEPT ![w] =
                             [Writer("write", actor[w].kind, actor[w].req, c) EXCEPT !.ids = new]]
    BY <1>2 DEF DiscoverSources
  <2> DEFINE mine(t) == {i \in answered : c.sources[LastWithAddress(c, places, i)] = t}
             upTo(t) == {i \in answered : \E j \in mine(t) : i <= j}
             found == [t \in Sources |-> IF mine(t) = {} THEN 0 ELSE snapshots + Cardinality(upTo(t))]
  <2>2. /\ snapshots' = snapshots + Cardinality(answered)
        /\ actor' = [actor EXCEPT ![w] = [Writer("write", actor[w].kind, actor[w].req, c) EXCEPT !.ids = found]]
    BY <2>1
  <2>3. WriterOK(w) /\ c \in Documents /\ c.sources \in Seq(Sources)
    BY DEF DocInv, WriterOK, Holds, DiscoverSources, CopyOK, Documents
  <2>4. IsFiniteSet(answered)
    <3>1. DOMAIN c.sources = 1 .. Len(c.sources) /\ Len(c.sources) \in Nat
      BY <2>3
    <3>2. IsFiniteSet(1 .. Len(c.sources))
      BY <3>1, FS_Interval
    <3>3. answered \subseteq 1 .. Len(c.sources)
      BY <3>1 DEF workspaceSourceConnections
    <3>4. QED
      BY <3>2, <3>3, FS_Subset
  <2>5. Cardinality(answered) \in Nat
    BY <2>4, FS_CardinalityType
  <2>6. ASSUME NEW t \in Sources
        PROVE  Cardinality(upTo(t)) \in Nat /\ Cardinality(upTo(t)) <= Cardinality(answered)
    <3>1. upTo(t) \in SUBSET answered
      OBVIOUS
    <3> HIDE DEF upTo
    <3>2. QED
      BY <2>4, <3>1, FS_Subset, FS_CardinalityType
  <2>7. /\ found \in Snapshots
        /\ \A s \in Sources : found[s] # 0 => snapshots <= found[s] /\ found[s] <= snapshots'
    <3> HIDE DEF upTo, mine
    <3>1. snapshots \in Nat
      BY DEF DocInv
    <3>2. \A t \in Sources : found[t] = 0 \/ found[t] = snapshots + Cardinality(upTo(t))
      OBVIOUS
    <3>3. \A t \in Sources : found[t] \in Nat /\ (found[t] # 0 => snapshots <= found[t] /\ found[t] <= snapshots')
      <4> HIDE DEF found
      <4>1. QED
        BY <2>2, <2>5, <2>6, <3>1, <3>2
    <3>4. found = [t \in Sources |-> found[t]]
      OBVIOUS
    <3> HIDE DEF found
    <3>5. QED
      BY <3>3, <3>4 DEF Snapshots
  <2> HIDE DEF found, upTo, mine, places
  <2>8. /\ actor' = [x \in Writers |-> actor'[x]] /\ \A x \in Writers \ {w} : actor'[x] = actor[x]
        /\ actor'[w] = [Writer("write", actor[w].kind, actor[w].req, c) EXCEPT !.ids = found]
    BY <2>2 DEF DocInv
  <2>9. /\ actor'[w].step = "write" /\ actor'[w].kind = actor[w].kind /\ actor'[w].req = actor[w].req
        /\ actor'[w].copy = c /\ actor'[w].ids = found
    BY <2>8 DEF Writer
  <2>10. Later
    BY <2>2, <2>5, StoreGrows DEF DiscoverSources, DocInv
  <2>11. /\ actor[w].step = "work" /\ actor[w].kind = "discovery" /\ UNCHANGED <<doc, dirty, raced>>
    BY DEF DiscoverSources
  <2>12. QED
    BY <2>7, <2>8, <2>9, <2>10, <2>11, WorkStep
<1>3. QED
  BY <1>1, <1>2

\* Deleting the document makes every copy of it stale in all fields.
LEMMA DeleteWorkspaceInv ==
    ASSUME DocInv, DeleteWorkspace
    PROVE  DocInv'
<1>1. Later
  BY StoreGrows DEF DeleteWorkspace, DocInv
<1>2. doc' = NoDoc /\ actor' = actor /\ raced' = raced
  BY DEF DeleteWorkspace
<1>3. ASSUME NEW x \in Writers PROVE (WriterOK(x) /\ FreshOK(x) /\ BasisOK(x))'
  <2>1. WriterOK(x)'
    BY <1>1, <1>2, OtherWriter
  <2>2. FreshOK(x)'
    BY <1>2 DEF FreshOK, Holds, DeleteWorkspace
  <2>3. BasisOK(x)'
    BY <1>2 DEF DocInv, BasisOK, Holds, Discovered
  <2>4. QED
    BY <2>1, <2>2, <2>3
<1>4. dirty' \in [Writers -> SUBSET Fields]
  BY DEF DeleteWorkspace
<1>5. AssessedAfterDiscovery'
  BY <1>2 DEF AssessedAfterDiscovery
<1>6. QED
  BY <1>1, <1>2, <1>3, <1>4, <1>5 DEF DocInv, Later

\* A document created after a deletion is unknown to every writer that still holds
\* the old one.
LEMMA CreateWorkspaceInv ==
    ASSUME DocInv, CreateWorkspace
    PROVE  DocInv'
<1>1. Later
  BY StoreGrows DEF CreateWorkspace, DocInv
<1>2. PICK body \in Bodies : doc' = NewDocument(body)
  BY DEF CreateWorkspace
<1>3. doc = NoDoc /\ actor' = actor /\ dirty' = dirty
      /\ raced' = (raced \/ \E x \in Writers : actor[x].step # "idle")
  BY DEF CreateWorkspace
<1>4. CopyOK(doc)' /\ Artifacts(doc') = {}
  <2>1. PICK d : d = NewDocument(body)
    OBVIOUS
  <2>2. CopyOK(d) /\ Artifacts(d) = {}
    BY <2>1, NewConsistent DEF DocInv
  <2>3. CopyOK(d)'
    BY <1>1, <2>2, CopyLater
  <2>4. QED
    BY <1>2, <2>1, <2>2, <2>3 DEF CopyOK, Recorded
<1>5. ASSUME NEW x \in Writers PROVE (WriterOK(x) /\ FreshOK(x) /\ BasisOK(x))'
  <2>1. WriterOK(x)'
    BY <1>1, <1>3, OtherWriter
  <2>2. FreshOK(x)'
    BY <1>3 DEF DocInv, FreshOK, Holds
  <2>3. BasisOK(x)'
    BY <1>3 DEF BasisOK
  <2>4. QED
    BY <2>1, <2>2, <2>3
<1>6. AssessedAfterDiscovery'
  BY <1>4 DEF AssessedAfterDiscovery, Artifacts
<1>7. raced' \in BOOLEAN
  BY <1>3 DEF DocInv
<1>8. QED
  BY <1>1, <1>3, <1>4, <1>5, <1>6, <1>7 DEF DocInv, Later

\* Only the jobs that assess make results, and none of the writers loses a snapshot.
LEMMA ResultsMade ==
    ASSUME DocInv, NEW w \in Writers, actor[w].step = "write"
    PROVE  LET d == actor[w].copy
               e == normalizeWorkspace(Apply(actor[w]))
           IN  /\ Discovered(d) \subseteq Discovered(e)
               /\ actor[w].kind \in Assessing \/ Artifacts(e) = Artifacts(d)
<1> DEFINE a == actor[w]
           d == actor[w].copy
           e == normalizeWorkspace(Apply(actor[w]))
<1>1. WriterOK(w) /\ d \in Documents /\ e \in Documents
  BY Written DEF DocInv, WriterOK, Holds, CopyOK
<1>2. a.kind \in {"discovery", "graph", "simulation", "plan", "patch", "report"}
  BY <1>1 DEF WriterOK, JobKinds
<1>3. \A f \in Fields \ (Remit(a) \cup {"status"}) : e[f] = d[f]
  BY RemitKept
<1>4. a.kind # "discovery" => "snaps" \notin Remit(a)
  BY <1>1, <1>2 DEF Remit, WriterOK, PatchOK
<1>5. a.kind \notin Assessing => "graph" \notin Remit(a) /\ "sim" \notin Remit(a) /\ "plan" \notin Remit(a)
  BY <1>1, <1>2 DEF Remit, WriterOK, PatchOK, Assessing
<1>6. a.kind = "discovery" => \A s \in Sources : d.snaps[s] # 0 => e.snaps[s] # 0
  <2>1. ASSUME a.kind = "discovery" PROVE e = With(d, ApplyDiscovery(d, a.ids))
    <3>1. Apply(a) = With(d, ApplyDiscovery(d, a.ids))
      BY <2>1 DEF Apply
    <3>2. With(d, ApplyDiscovery(d, a.ids)).approval = d.approval
      BY DEF With, Fields, ApplyDiscovery
    <3>3. d.approval.status # ""
      BY <1>1, DocumentAssumption DEF Documents
    <3>4. QED
      BY <3>1, <3>2, <3>3 DEF normalizeWorkspace
  <2>2. With(d, ApplyDiscovery(d, a.ids)).snaps = upsertWorkspaceSnapshot(d.snaps, a.ids)
    BY DEF With, Fields, ApplyDiscovery
  <2>3. QED
    BY <2>1, <2>2 DEF upsertWorkspaceSnapshot
<1> HIDE DEF e
<1>7. Discovered(d) \subseteq Discovered(e)
  <2>1. CASE a.kind = "discovery"
    BY <1>6, <2>1 DEF Discovered
  <2>2. CASE a.kind # "discovery"
    BY <1>3, <1>4, <2>2 DEF Discovered, Fields
  <2>3. QED
    BY <2>1, <2>2
<1>8. a.kind \notin Assessing => Artifacts(e) = Artifacts(d)
  BY <1>3, <1>5 DEF Artifacts, Fields
<1>9. QED
  BY <1>7, <1>8 DEF e

\* UpdateWorkspace: what a writer stores is consistent, though it may overwrite
\* what others stored; what changes is marked dirty for all who hold a copy.
LEMMA UpdateWorkspaceInv ==
    ASSUME DocInv, NEW w \in Writers, UpdateWorkspace(w)
    PROVE  DocInv'
<1>1. CASE doc = NoDoc
  BY <1>1, GivesUp DEF UpdateWorkspace
<1>2. CASE doc # NoDoc
  <2>1. PICK e : e = normalizeWorkspace(Apply(actor[w]))
    OBVIOUS
  <2>2. /\ actor[w].step = "write" /\ actor' = [actor EXCEPT ![w] = IdleWriter] /\ doc' = e
        /\ dirty' = [x \in Writers |-> IF x # w /\ Holds(x) THEN dirty[x] \cup {f \in Fields : e[f] # doc[f]}
                                       ELSE IF x = w THEN {} ELSE dirty[x]]
        /\ raced' = (raced \/ dirty[w] # {})
    BY <1>2, <2>1 DEF UpdateWorkspace, Answered, Outdate
  <2>3. Later
    BY StoreGrows DEF UpdateWorkspace, DocInv
  <2>4. CopyOK(e) /\ e \in Documents
    BY <2>1, <2>2, Written DEF CopyOK
  <2>5. CopyOK(doc)' /\ doc' # NoDoc
    <3>1. CopyOK(e)'
      BY <2>3, <2>4, CopyLater
    <3>2. QED
      BY <2>2, <2>4, <3>1, DocumentAssumption DEF CopyOK, Recorded
  <2>6. WriterOK(w) /\ Holds(w) /\ CopyOK(actor[w].copy) /\ FreshOK(w) /\ BasisOK(w) /\ dirty[w] \subseteq Fields
    BY <2>2 DEF DocInv, WriterOK, Holds
  <2>7. ~raced' =>
          /\ ~raced /\ Discovered(doc) \subseteq Discovered(e)
          /\ Artifacts(e) # {} => Artifacts(doc) # {} \/ Discovered(e) # {}
    <3>1. ASSUME ~raced'
          PROVE  /\ ~raced /\ Discovered(doc) \subseteq Discovered(e)
                 /\ Artifacts(e) # {} => Artifacts(doc) # {} \/ Discovered(e) # {}
      <4>1. ~raced /\ dirty[w] = {}
        BY <2>2, <3>1
      <4>2. \A f \in Fields : actor[w].copy[f] = doc[f]
        BY <1>2, <2>6, <4>1 DEF FreshOK
      <4>3. Discovered(actor[w].copy) = Discovered(doc) /\ Artifacts(actor[w].copy) = Artifacts(doc)
        BY <4>2 DEF Discovered, Artifacts, Fields
      <4>4. /\ Discovered(actor[w].copy) \subseteq Discovered(e)
            /\ actor[w].kind \in Assessing \/ Artifacts(e) = Artifacts(actor[w].copy)
        BY <2>1, <2>2, ResultsMade
      <4>5. actor[w].kind \in Assessing => Discovered(actor[w].copy) # {}
        BY <2>2, <2>6, <4>1 DEF BasisOK
      <4>6. QED
        BY <4>1, <4>3, <4>4, <4>5
    <3>2. QED
      BY <3>1
  <2>8. ASSUME NEW x \in Writers PROVE (WriterOK(x) /\ FreshOK(x) /\ BasisOK(x))'
    <3>1. CASE x = w
      <4>1. actor'[w] = IdleWriter
        BY <2>2 DEF DocInv
      <4>2. QED
        BY <3>1, <4>1, Ended
    <3>2. CASE x # w
      <4>1. actor'[x] = actor[x] /\ FreshOK(x) /\ BasisOK(x)
        BY <2>2, <3>2 DEF DocInv
      <4>2. WriterOK(x)'
        BY <2>3, <4>1, OtherWriter
      <4>3. FreshOK(x)'
        <5>1. ASSUME Holds(x), NEW f \in Fields \ dirty'[x] PROVE actor[x].copy[f] = doc'[f]
          BY <1>2, <2>2, <3>2, <4>1, <5>1 DEF FreshOK
        <5>2. QED
          BY <2>5, <4>1, <5>1 DEF FreshOK, Holds
      <4>4. BasisOK(x)'
        <5>1. Discovered(doc') = Discovered(e)
          BY <2>2
        <5>2. QED
          BY <1>2, <2>7, <4>1, <5>1 DEF BasisOK, Holds, Discovered
      <4>5. QED
        BY <4>2, <4>3, <4>4
    <3>3. QED
      BY <3>1, <3>2
  <2>9. AssessedAfterDiscovery'
    <3>1. ~raced /\ Artifacts(doc) # {} => Discovered(doc) # {}
      BY <1>2 DEF DocInv, AssessedAfterDiscovery
    <3>2. ~raced' /\ Artifacts(e) # {} => Discovered(e) # {}
      BY <2>7, <3>1
    <3>3. QED
      BY <2>2, <3>2 DEF AssessedAfterDiscovery
  <2>10. dirty' \in [Writers -> SUBSET Fields] /\ actor' = [x \in Writers |-> actor'[x]] /\ raced' \in BOOLEAN
    BY <2>2 DEF DocInv
  <2>11. QED
    BY <2>3, <2>5, <2>8, <2>9, <2>10 DEF DocInv, Later
<1>3. QED
  BY <1>1, <1>2

\* Every step keeps the invariant of the documents.
LEMMA DocStepInv ==
    ASSUME DocInv, [WDNext]_wdvars
    PROVE  DocInv'
<1>1. CASE CreateWorkspace
  BY <1>1, CreateWorkspaceInv
<1>2. CASE DeleteWorkspace
  BY <1>2, DeleteWorkspaceInv
<1>3. ASSUME NEW w \in Writers,
             \/ QueueJob(w) \/ ReadDocument(w) \/ ReadRequest(w) \/ DiscoverSources(w) \/ Assess(w)
             \/ SavePlan(w) \/ UpdateWorkspace(w) \/ UpdateFails(w)
      PROVE  DocInv'
  <2>1. CASE QueueJob(w)
    BY <2>1, QueueJobInv
  <2>2. CASE ReadDocument(w)
    BY <2>2, ReadDocumentInv
  <2>3. CASE ReadRequest(w)
    BY <2>3, ReadRequestInv
  <2>4. CASE DiscoverSources(w)
    BY <2>4, DiscoverSourcesInv
  <2>5. CASE Assess(w)
    BY <2>5, AssessInv
  <2>6. CASE SavePlan(w)
    BY <2>6, SavePlanInv
  <2>7. CASE UpdateWorkspace(w)
    BY <2>7, UpdateWorkspaceInv
  <2>8. CASE UpdateFails(w)
    BY <2>8, GivesUp DEF UpdateFails
  <2>9. QED
    BY <1>3, <2>1, <2>2, <2>3, <2>4, <2>5, <2>6, <2>7, <2>8
<1>4. CASE UNCHANGED wdvars
  <2>1. Later /\ UNCHANGED <<doc, actor, dirty, raced, snapshots, migrations>>
    BY <1>4, StoreGrows DEF wdvars, DocInv
  <2>2. ASSUME NEW x \in Writers PROVE (WriterOK(x) /\ FreshOK(x) /\ BasisOK(x))'
    <3>1. WriterOK(x)'
      BY <2>1, OtherWriter
    <3>2. FreshOK(x)' /\ BasisOK(x)'
      BY <2>1 DEF DocInv, FreshOK, BasisOK, Holds, Discovered
    <3>3. QED
      BY <3>1, <3>2
  <2>3. (doc # NoDoc => CopyOK(doc))'
    BY <2>1 DEF DocInv, CopyOK, Recorded
  <2>4. AssessedAfterDiscovery'
    BY <2>1 DEF DocInv, AssessedAfterDiscovery
  <2>5. QED
    BY <2>1, <2>2, <2>3, <2>4 DEF DocInv
<1>5. QED
  BY <1>1, <1>2, <1>3, <1>4 DEF WDNext

\* The first document is new, and nobody holds a copy.
LEMMA DocInitInv ==
    ASSUME WDInit
    PROVE  DocInv
<1>1. PICK body \in Bodies : doc = NewDocument(body)
  BY DEF WDInit
<1>2. snapshots = 0 /\ actor = [w \in Writers |-> IdleWriter] /\ dirty = [w \in Writers |-> {}] /\ raced = FALSE
  BY DEF WDInit
<1>3. migrations \in Seq(Gates)
  <2>1. migrations = <<>>
    BY DEF WDInit
  <2>2. QED
    BY <2>1
<1>4. CopyOK(doc) /\ Artifacts(doc) = {}
  BY <1>1, <1>2, NewConsistent
<1>5. ASSUME NEW x \in Writers PROVE WriterOK(x) /\ FreshOK(x) /\ BasisOK(x)
  <2>1. actor[x] = IdleWriter
    BY <1>2
  <2>2. actor[x].step = "idle"
    BY <2>1 DEF IdleWriter, Writer
  <2>3. QED
    BY <2>2 DEF WriterOK, FreshOK, BasisOK, Holds
<1>6. AssessedAfterDiscovery
  BY <1>4 DEF AssessedAfterDiscovery
<1>7. QED
  BY <1>2, <1>3, <1>4, <1>5, <1>6 DEF DocInv

\* The invariant makes the stored document consistent.
LEMMA DocInvEnough ==
    ASSUME DocInv
    PROVE  DocumentsAreConsistent
<1>1. WDTypeOK
  BY DEF DocInv, WDTypeOK, CopyOK, WriterOK
<1>2. StatusIsBacked /\ ResultsFollowSnapshots /\ PlanIsRecorded /\ AssessedAfterDiscovery
  BY DEF DocInv, CopyOK, StatusIsBacked, ResultsFollowSnapshots, PlanIsRecorded
<1>3. QED
  BY <1>1, <1>2 DEF DocumentsAreConsistent

\* For any number of writers, sources and requests: the stored workspace document
\* is consistent however UpdateWorkspace calls interleave: its status is backed by
\* results, the results are about snapshots it had, its plan is a saved migration,
\* and results without a race came after a discovery.
THEOREM DocumentsConsistent == WDSpec => []DocumentsAreConsistent
<1>1. WDInit => DocInv
  BY DocInitInv
<1>2. DocInv /\ [WDNext]_wdvars => DocInv'
  BY DocStepInv
<1>3. DocInv => DocumentsAreConsistent
  BY DocInvEnough
<1>4. QED
  BY <1>1, <1>2, <1>3, PTL DEF WDSpec

\* What LostUpdatesAreRaced says of a step.
WriteKeeps(w) ==
    (actor[w].step = "write" /\ actor'[w].step = "idle" /\ doc # NoDoc /\ doc' # NoDoc) =>
       /\ \A f \in Fields \ (Remit(actor[w]) \cup dirty[w] \cup {"status"}) : doc'[f] = doc[f]
       /\ statusWeight[doc'.status] >= statusWeight[doc.status] \/ "status" \in dirty[w]

\* The status of the stored document has a weight.
LEMMA StoredStatus ==
    ASSUME DocInv, doc # NoDoc
    PROVE  statusWeight[doc.status] \in Nat
  BY DEF DocInv, CopyOK, Documents, statusWeight

\* UpdateWorkspace stores the copy, which differs from the stored document only in
\* dirty fields, with the writer's own fields applied.
LEMMA UpdateKeeps ==
    ASSUME DocInv, NEW w \in Writers, UpdateWorkspace(w)
    PROVE  WriteKeeps(w)
<1> SUFFICES ASSUME doc # NoDoc PROVE WriteKeeps(w)
  BY DEF WriteKeeps
<1>1. PICK e : e = normalizeWorkspace(Apply(actor[w]))
  OBVIOUS
<1>2. actor[w].step = "write" /\ doc' = e
  BY <1>1 DEF UpdateWorkspace
<1>3. FreshOK(w) /\ Holds(w)
  BY <1>2 DEF DocInv, Holds
<1>4. \A f \in Fields \ dirty[w] : actor[w].copy[f] = doc[f]
  BY <1>3 DEF FreshOK
<1>5. /\ \A f \in Fields \ (Remit(actor[w]) \cup {"status"}) : e[f] = actor[w].copy[f]
      /\ statusWeight[e.status] >= statusWeight[actor[w].copy.status]
  BY <1>1, <1>2, RemitKept
<1>6. "status" \notin dirty[w] => actor[w].copy.status = doc.status
  BY <1>4 DEF Fields
<1>7. QED
  BY <1>2, <1>4, <1>5, <1>6 DEF WriteKeeps

\* Only UpdateWorkspace ends a writer by storing its copy; no other step changes a
\* document that stays.
LEMMA DocStepKeeps ==
    ASSUME DocInv, WDNext, NEW w \in Writers
    PROVE  WriteKeeps(w)
<1> USE DEF WriteKeeps
<1>1. CASE CreateWorkspace
  BY <1>1 DEF CreateWorkspace
<1>2. CASE DeleteWorkspace
  BY <1>2 DEF DeleteWorkspace
<1>3. ASSUME NEW x \in Writers,
             \/ QueueJob(x) \/ ReadDocument(x) \/ ReadRequest(x) \/ DiscoverSources(x) \/ Assess(x)
             \/ SavePlan(x) \/ UpdateFails(x)
      PROVE  WriteKeeps(w)
  <2>1. doc' = doc
    BY <1>3 DEF QueueJob, ReadDocument, ReadRequest, DiscoverSources, Assess, SavePlan, UpdateFails
  <2>2. QED
    BY <2>1, StoredStatus
<1>4. ASSUME NEW x \in Writers, UpdateWorkspace(x) PROVE WriteKeeps(w)
  <2>1. CASE x = w
    BY <1>4, <2>1, UpdateKeeps
  <2>2. CASE x # w
    <3>1. actor'[w] = actor[w]
      BY <1>4, <2>2 DEF UpdateWorkspace, Answered, DocInv
    <3>2. QED
      BY <3>1
  <2>3. QED
    BY <2>1, <2>2
<1>5. QED
  BY <1>1, <1>2, <1>3, <1>4 DEF WDNext

\* For any number of writers: an UpdateWorkspace changes a field that is not its
\* own, or lowers the status, only if another writer stored that field after this
\* one had read it.
THEOREM LostUpdatesRaced == WDSpec => LostUpdatesAreRaced
<1>1. WDInit => DocInv
  BY DocInitInv
<1>2. DocInv /\ [WDNext]_wdvars => DocInv'
  BY DocStepInv
<1>3. DocInv /\ [WDNext]_wdvars =>
        [\A w \in Writers : WriteKeeps(w)]_wdvars
  BY DocStepKeeps
<1>4. (\A w \in Writers : WriteKeeps(w)) <=>
        \A w \in Writers :
          (actor[w].step = "write" /\ actor'[w].step = "idle" /\ doc # NoDoc /\ doc' # NoDoc) =>
             /\ \A f \in Fields \ (Remit(actor[w]) \cup dirty[w] \cup {"status"}) : doc'[f] = doc[f]
             /\ statusWeight[doc'.status] >= statusWeight[doc.status] \/ "status" \in dirty[w]
  BY DEF WriteKeeps
<1>5. QED
  BY <1>1, <1>2, <1>3, <1>4, PTL DEF WDSpec, LostUpdatesAreRaced
=============================================================================
