--------------------------- MODULE ExecutionPlan ---------------------------
(***************************************************************************)
(* Planning the waves of a migration (BuildExecutionPlan and                *)
(* buildDependencyAwareWaves in internal/migrate/plan.go): the workloads that *)
(* the selectors match, the dependencies that the selectors add to them, and *)
(* waves of a limited size in which every workload follows what it depends   *)
(* on.  Dependencies name a workload by its id or by its name, and both may  *)
(* be ambiguous.                                                            *)
(***************************************************************************)
EXTENDS Integers, FiniteSets

CONSTANTS Workloads,   \* VMs of the inventory, one per id (MatchWorkloads)
          References,  \* ids, names and other words that a dependency may use
          IdOf, NameOf,\* workload -> reference, in lower case
          Rank,        \* workload -> place of its name in alphabetical order
          Specs        \* selectors (workloads they match, dependencies) and options

ASSUME PlanAssumption ==
    /\ IsFiniteSet(Workloads) /\ IsFiniteSet(References)
    /\ IdOf \in [Workloads -> References] /\ NameOf \in [Workloads -> References]
    /\ Rank \in [Workloads -> Nat]
    /\ \A spec \in Specs :
         /\ spec.size \in Int /\ spec.parallel \in Int
         /\ \A sel \in spec.selectors : sel.deps \subseteq References

VARIABLES
    spec,       \* the migration spec
    index,      \* nameIndex: the references it knows -> workloads
    indegree,   \* workload -> dependencies that are not in a wave yet
    available,  \* workloads that may go into the next wave
    waveOf,     \* workload -> its wave, 0 for none
    waves,      \* number of waves
    planning    \* match, resolve, waves, planned, unknown, self or cycle

epvars == <<spec, index, indegree, available, waveOf, waves, planning>>

-----------------------------------------------------------------------------
(* Matching.                                                                *)

Matched == {w \in Workloads : \E sel \in spec.selectors : w \in sel.matches}
\* mergedOverridesForVM: the dependencies of all the selectors that match; a
\* workload that is named by id and by name counts twice.
mergedOverridesForVM(w) == UNION {sel.deps : sel \in {s \in spec.selectors : w \in s.matches}}

\* normalizedWaveStrategy: never less than one.
normalizedWaveStrategy ==
    IF spec.size > 0 THEN spec.size ELSE IF spec.parallel > 0 THEN spec.parallel ELSE 1

Bearers(r) == {w \in Matched : r \in {IdOf[w], NameOf[w]}}
Known == {r \in References : Bearers(r) # {}}
\* The references of w that lead to a workload in S.
Into(w, S) == {r \in mergedOverridesForVM(w) : index[r] \in S}

-----------------------------------------------------------------------------
(* buildDependencyAwareWaves.                                               *)

\* nameIndex: the last bearer in the order of the names; bearers with the same
\* name come in any order, so that one of them gets the name.
IndexByName ==
    /\ planning = "match"
    /\ \E f \in [Known -> Matched] :
         /\ \A r \in Known : f[r] \in Bearers(r) /\ \A v \in Bearers(r) : Rank[v] <= Rank[f[r]]
         /\ index' = f
    /\ planning' = "resolve"
    /\ UNCHANGED <<spec, indegree, available, waveOf, waves>>

\* A reference that nothing bears and a workload that depends on itself are errors;
\* which one is reported depends on the order, that one is reported does not.
Unresolved == \E w \in Matched : ~(mergedOverridesForVM(w) \subseteq Known)
SelfDependent == \E w \in Matched : \E r \in mergedOverridesForVM(w) \cap Known : index[r] = w

ResolveDependencies ==
    /\ planning = "resolve"
    /\ \/ /\ Unresolved /\ planning' = "unknown"
          /\ UNCHANGED <<indegree, available, waveOf>>
       \/ /\ SelfDependent /\ planning' = "self"
          /\ UNCHANGED <<indegree, available, waveOf>>
       \/ /\ ~Unresolved /\ ~SelfDependent /\ planning' = "waves"
          /\ indegree' = [w \in Matched |-> Cardinality(mergedOverridesForVM(w))]
          /\ available' = {w \in Matched : indegree'[w] = 0}
          /\ waveOf' = [w \in Matched |-> 0]
    /\ UNCHANGED <<spec, index, waves>>

\* The first `count` of the available workloads in the order of their names.
Batch(current) ==
    /\ current \subseteq available
    /\ Cardinality(current) = IF normalizedWaveStrategy < Cardinality(available)
                              THEN normalizedWaveStrategy ELSE Cardinality(available)
    /\ \A v \in current, w \in available \ current : Rank[v] <= Rank[w]

\* Each workload of the wave releases the ones that depend on it, once per
\* reference.
Release(current) ==
    LET left(w) == indegree[w] - Cardinality(Into(w, current)) IN
    /\ indegree' = [w \in Matched |-> left(w)]
    /\ available' = (available \ current)
                    \cup {w \in Matched : Into(w, current) # {} /\ left(w) = 0}

\* Mutant: the first dependency that is placed makes a workload available.
TakeWaveEager ==
    /\ planning = "waves" /\ available # {}
    /\ \E current \in SUBSET available :
         /\ Batch(current)
         /\ waveOf' = [w \in Matched |-> IF w \in current THEN waves + 1 ELSE waveOf[w]]
         /\ indegree' = [w \in Matched |-> indegree[w] - Cardinality(Into(w, current))]
         /\ available' = (available \ current) \cup {w \in Matched : Into(w, current) # {}}
    /\ waves' = waves + 1
    /\ UNCHANGED <<spec, index, planning>>

\* One wave.  Without dependencies this is a chunk of chunkWorkloads.
TakeWave ==
    /\ planning = "waves" /\ available # {}
    /\ \E current \in SUBSET available :
         /\ Batch(current) /\ Release(current)
         /\ waveOf' = [w \in Matched |-> IF w \in current THEN waves + 1 ELSE waveOf[w]]
    /\ waves' = waves + 1
    /\ UNCHANGED <<spec, index, planning>>

Placed == {w \in Matched : waveOf[w] > 0}

\* Workloads that never became available are on a cycle, or behind one.
FinishPlan ==
    /\ planning = "waves" /\ available = {}
    /\ planning' = IF Placed = Matched THEN "planned" ELSE "cycle"
    /\ UNCHANGED <<spec, index, indegree, available, waveOf, waves>>

EPInit ==
    /\ spec \in Specs /\ planning = "match"
    /\ index = [r \in {} |-> {}] /\ indegree = [w \in {} |-> 0]
    /\ available = {} /\ waveOf = [w \in {} |-> 0] /\ waves = 0

EPNext == IndexByName \/ ResolveDependencies \/ TakeWave \/ FinishPlan

EPSpec == EPInit /\ [][EPNext]_epvars

-----------------------------------------------------------------------------
(* Properties.                                                              *)

\* A set of workloads each of which depends on one of them.
Circular(S) == \A w \in S : Into(w, S) # {}

\* The name index leads to matched workloads, no reference that the planner follows
\* is unknown, counts of open dependencies stay natural numbers although several
\* references may lead to one workload, and only matched workloads become available
\* or get a wave.
EPTypeOK ==
    /\ waves \in Nat
    /\ planning \in {"match", "resolve", "waves", "planned", "unknown", "self", "cycle"}
    /\ planning \in {"resolve", "waves", "planned", "self", "cycle"} => index \in [Known -> Matched]
    /\ planning \in {"waves", "planned", "cycle"} =>
         /\ \A w \in Matched : mergedOverridesForVM(w) \subseteq Known
         /\ indegree \in [Matched -> Nat]
         /\ waveOf \in [Matched -> 0 .. waves]
         /\ available \subseteq Matched

\* A workload is in a wave only after everything its references lead to is in
\* earlier waves, also when several references lead to one workload and when the
\* size splits what is available at once.
DependenciesFirst ==
    planning \in {"waves", "planned", "cycle"} =>
      \A w \in Placed : \A r \in mergedOverridesForVM(w) :
         waveOf[index[r]] \in 1 .. waveOf[w] - 1

\* The planner gives up with a cycle exactly if there is one, and a plan has every
\* matched workload in it.
CyclesAreFound ==
    /\ planning = "planned" => /\ Placed = Matched
                               /\ \A S \in SUBSET Matched : Circular(S) => S = {}
    /\ planning = "cycle" => \E S \in SUBSET Matched : S # {} /\ Circular(S)

\* The planner is right about dependencies: all of a workload's are in earlier waves,
\* and it refuses exactly the circular ones, although ids and names may be ambiguous
\* and a workload may be named more than once.
WavesAreOrdered ==
  /\ EPTypeOK
  /\ DependenciesFirst
  /\ CyclesAreFound
=============================================================================
