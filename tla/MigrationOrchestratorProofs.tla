--------------------- MODULE MigrationOrchestratorProofs ---------------------
(***************************************************************************)
(* Proofs about MigrationOrchestrator for every number of workloads, bound *)
(* and combination of options and faults.  For every set of operations     *)
(* that overlap: the types, that the stored checkpoints are always a       *)
(* completed prefix, and, when every discovery selects the workloads of    *)
(* the spec, that completed checkpoints are backed and completed           *)
(* migrations have happened.  For operations one after another: the        *)
(* recovery point and the rollback.                                        *)
(***************************************************************************)
EXTENDS MigrationOrchestrator, TLAPS

PhaseNames == Phases \cup {"none", "complete", "failed", "rolled_back"}

-----------------------------------------------------------------------------
\* Lemmas about the phases and the states.

\* The five phases that run are distinct and differ from every other phase.
LEMMA OrderFacts ==
  /\ \A i \in 1..5 : Order[i] \in Phases \ {"plan"}
  /\ \A i \in 1..5 : Order[i] \notin {"none", "complete", "failed", "rolled_back"}
  /\ \A i, j \in 1..5 : Order[i] = Order[j] => i = j
BY DEF Order, Phases

\* A nonempty set of phase indices has a least element: nextPhaseStartIndex
\* returns the first incomplete phase, or 0.
LEMMA NextPhaseFacts ==
  ASSUME NEW s
  PROVE  \/ NextPhase(s) = 0 /\ \A i \in 1..5 : s.cp[Order[i]] = "completed"
         \/ /\ NextPhase(s) \in 1..5
            /\ s.cp[Order[NextPhase(s)]] # "completed"
            /\ \A i \in 1..5 : i < NextPhase(s) => s.cp[Order[i]] = "completed"
<1>1. CASE Incomplete(s) = {}
  BY <1>1 DEF NextPhase, Incomplete
<1>2. CASE Incomplete(s) # {}
  <2>1. Incomplete(s) \subseteq 1..5
    BY DEF Incomplete
  <2>2. \E i \in Incomplete(s) : \A j \in Incomplete(s) : i <= j
    <3>1. CASE 1 \in Incomplete(s)  BY <3>1, <2>1
    <3>2. CASE 1 \notin Incomplete(s) /\ 2 \in Incomplete(s)  BY <3>2, <2>1
    <3>3. CASE {1, 2} \cap Incomplete(s) = {} /\ 3 \in Incomplete(s)  BY <3>3, <2>1
    <3>4. CASE {1, 2, 3} \cap Incomplete(s) = {} /\ 4 \in Incomplete(s)  BY <3>4, <2>1
    <3>5. CASE {1, 2, 3, 4} \cap Incomplete(s) = {}  BY <3>5, <2>1, <1>2
    <3> QED BY <3>1, <3>2, <3>3, <3>4, <3>5
  <2>3. /\ NextPhase(s) \in Incomplete(s)
        /\ \A j \in Incomplete(s) : NextPhase(s) <= j
    BY <2>2, <1>2 DEF NextPhase
  <2> QED BY <2>1, <2>3 DEF Incomplete
<1> QED BY <1>1, <1>2

\* Marking a checkpoint, as updateCheckpoint does, changes that one only.
LEMMA MarkFacts ==
  ASSUME NEW s \in StateType, NEW ph \in Phases, NEW x \in Status
  PROVE  /\ Mark(s, ph, x) \in StateType
         /\ Mark(s, ph, x).phase = s.phase
         /\ Mark(s, ph, x).cp[ph] = x
         /\ \A q \in Phases : q # ph => Mark(s, ph, x).cp[q] = s.cp[q]
BY DEF Mark, StateType

\* Setting the phase of a state leaves its checkpoints alone.
LEMMA PhaseFacts ==
  ASSUME NEW s \in StateType, NEW ph \in PhaseNames
  PROVE  /\ [s EXCEPT !.phase = ph] \in StateType
         /\ [s EXCEPT !.phase = ph].phase = ph
         /\ [s EXCEPT !.phase = ph].cp = s.cp
BY DEF StateType, PhaseNames

\* failState keeps the type and fails at most the checkpoint of its phase.
LEMMA FailedFacts ==
  ASSUME NEW s \in StateType, NEW ph \in PhaseNames
  PROVE  /\ Failed(s, ph) \in StateType
         /\ Failed(s, ph).phase = "failed"
         /\ ph \in Phases => Failed(s, ph).cp[ph] = "failed"
         /\ \A q \in Phases : q # ph => Failed(s, ph).cp[q] = s.cp[q]
<1>1. CASE ph \in Phases
  <2>1. "failed" \in Status /\ "failed" \in PhaseNames
    BY DEF Status, PhaseNames
  <2>2. Failed(s, ph) = [Mark(s, ph, "failed") EXCEPT !.phase = "failed"]
    BY <1>1 DEF Failed
  <2> QED BY <1>1, <2>1, <2>2, MarkFacts, PhaseFacts
<1>2. CASE ph \notin Phases
  <2>1. "failed" \in PhaseNames
    BY DEF PhaseNames
  <2>2. Failed(s, ph) = [s EXCEPT !.phase = "failed"]
    BY <1>2 DEF Failed
  <2> QED BY <1>2, <2>1, <2>2, PhaseFacts
<1> QED BY <1>1, <1>2

\* Planning fills in the workloads and leaves phase and checkpoints alone.
LEMMA PlannedFacts ==
  ASSUME NEW s \in StateType, NEW n \in {0, N}, source \in [Workloads -> Power]
  PROVE  /\ Planned(s, n) \in StateType
         /\ Planned(s, n).phase = s.phase
         /\ Planned(s, n).cp = s.cp
<1>1. [w \in Workloads |-> IF w <= n THEN source[w] ELSE "off"] \in [Workloads -> Power]
  BY DEF Power
<1> QED BY <1>1 DEF Planned, StateType

\* A recovery point made from a state has its type.
LEMMA PointOfType ==
  ASSUME NEW s \in StateType
  PROVE  PointOf(s) \in PointType
<1>1. s.n \in {0, N} /\ s.vm \in [Workloads -> Nat] /\ s.conv \subseteq Workloads
      /\ s.power \in [Workloads -> Power]
  BY DEF StateType
<1>2. 1..s.n \subseteq Workloads
  BY <1>1, MigrationAssumption DEF Workloads
<1>3. {s.vm[w] : w \in 1..s.n} \ {0} \subseteq Nat
  BY <1>1, <1>2
<1>4. s.conv \cap 1..s.n \subseteq Workloads
  BY <1>1
<1> QED BY <1>1, <1>3, <1>4 DEF PointOf, PointType

\* The state an import, a conversion or its failure leaves keeps its type.
LEMMA WorkTypes ==
  ASSUME NEW s \in StateType, NEW w \in Workloads, NEW id \in Nat
  PROVE  /\ [s EXCEPT !.vm[w] = id] \in StateType
         /\ [s EXCEPT !.conv = @ \cup {w}] \in StateType
         /\ [s EXCEPT !.conv = @ \ {w}] \in StateType
         /\ [s EXCEPT !.planned = TRUE] \in StateType
BY DEF StateType

\* The workload that comes next in a phase is one of the spec's.
LEMMA WorkingFacts ==
  ASSUME MTypeOK, NEW p \in Procs, NEW ph, Working(p, ph)
  PROVE  /\ done[p] + 1 \in Workloads
         /\ [done EXCEPT ![p] = @ + 1] \in [Procs -> 0..N]
<1>1. done[p] \in 0..N /\ done \in [Procs -> 0..N] /\ st[p].n \in {0, N}
  BY DEF MTypeOK, StateType
<1>2. done[p] < N
  BY <1>1, MigrationAssumption DEF Working
<1> QED BY <1>1, <1>2, MigrationAssumption DEF Workloads

-----------------------------------------------------------------------------
\* Types.

\* Every variable keeps its type; among others the phase index never runs
\* past the last phase and no workload past the last one is handled.
THEOREM TypeCorrect == MSpec => []MTypeOK
<1>1. MInit => MTypeOK
  <2> SUFFICES ASSUME MInit PROVE MTypeOK
    OBVIOUS
  <2>1. NewState \in StateType /\ NotStored \in StateType
    BY MigrationAssumption DEF NewState, NotStored, StateType, Status, Power, Phases
  <2>2. NoPoint \in PointType
    BY MigrationAssumption DEF NoPoint, PointType, Power
  <2> QED BY <2>1, <2>2, MigrationAssumption DEF MInit, MTypeOK
<1>2. MTypeOK /\ [MNext]_mvars => MTypeOK'
  <2> SUFFICES ASSUME MTypeOK, [MNext]_mvars PROVE MTypeOK'
    OBVIOUS
  <2> USE DEF stored, world
  <2>0. CASE UNCHANGED mvars
    BY <2>0 DEF MTypeOK, mvars, procs, StateType, PointType
  <2>1. ASSUME NEW p \in Procs, StartExecute(p) PROVE MTypeOK'
    <3>1. NewState \in StateType
      BY MigrationAssumption DEF NewState, StateType, Status, Power, Phases
    <3> QED BY <2>1, <3>1 DEF MTypeOK, StartExecute, Begin, Keep, Goto
  <2>2. ASSUME NEW p \in Procs, StartResume(p) PROVE MTypeOK'
    BY <2>2 DEF MTypeOK, StartResume, Begin, Keep, Goto
  <2>3. ASSUME NEW p \in Procs, StartRollback(p) PROVE MTypeOK'
    BY <2>3 DEF MTypeOK, StartRollback, Begin, Goto
  <2>4. ASSUME NEW p \in Procs, DiscoverFails(p) PROVE MTypeOK'
    <3>1. st[p] \in StateType /\ st[p].phase \in PhaseNames /\ "plan" \in PhaseNames
      BY DEF MTypeOK, StateType, PhaseNames, Phases
    <3>2. Failed(st[p], st[p].phase) \in StateType /\ Failed(st[p], "plan") \in StateType
      BY <3>1, FailedFacts
    <3> QED BY <2>4, <3>2 DEF MTypeOK, DiscoverFails, Fail, Persist, Keep, Goto
  <2>5. ASSUME NEW p \in Procs, ExecutePlans(p) PROVE MTypeOK'
    <3>1. PICK n \in Matches :
            LET s == Planned(st[p], n)
            IN IF n = 0
               THEN Persist(p, Failed(s, "plan"), "idle")
               ELSE \E l \in {"idle", "begin"} : Persist(p, Mark(s, "plan", "completed"), l)
      BY <2>5 DEF ExecutePlans
    <3>2. n \in {0, N}
      BY DEF Matches
    <3>3. Planned(st[p], n) \in StateType
      BY <3>2, PlannedFacts DEF MTypeOK
    <3>4. "plan" \in Phases /\ "plan" \in PhaseNames /\ "completed" \in Status
      BY DEF Phases, PhaseNames, Status
    <3>5. /\ Failed(Planned(st[p], n), "plan") \in StateType
          /\ Mark(Planned(st[p], n), "plan", "completed") \in StateType
      BY <3>3, <3>4, FailedFacts, MarkFacts
    <3> QED BY <2>5, <3>1, <3>5 DEF MTypeOK, ExecutePlans, Persist, Keep, Goto
  <2>6. ASSUME NEW p \in Procs, ResumeContinues(p) PROVE MTypeOK'
    <3>1. PICK n \in Matches :
            LET s == IF st[p].n = 0 THEN Planned(st[p], n)
                     ELSE [st[p] EXCEPT !.planned = TRUE]
            IN \/ Persist(p, s, "idle") /\ UNCHANGED at
               \/ /\ NextPhase(s) = 0
                  /\ Persist(p, [s EXCEPT !.phase = "complete"], "idle")
                  /\ UNCHANGED at
               \/ /\ NextPhase(s) # 0
                  /\ Keep(p, s) /\ Goto(p, "start")
                  /\ at' = [at EXCEPT ![p] = NextPhase(s)]
                  /\ UNCHANGED rec
      BY <2>6 DEF ResumeContinues
    <3> DEFINE s == IF st[p].n = 0 THEN Planned(st[p], n)
                    ELSE [st[p] EXCEPT !.planned = TRUE]
    <3>2. n \in {0, N} /\ 1 \in Workloads
      BY MigrationAssumption DEF Matches, Workloads
    <3>3. s \in StateType
      BY <3>2, PlannedFacts, WorkTypes DEF MTypeOK
    <3>4. [s EXCEPT !.phase = "complete"] \in StateType
      BY <3>3, PhaseFacts DEF PhaseNames
    <3>5. NextPhase(s) # 0 => NextPhase(s) \in 1..5
      BY NextPhaseFacts
    <3> HIDE DEF s
    <3>6. \/ Persist(p, s, "idle") /\ UNCHANGED at
          \/ Persist(p, [s EXCEPT !.phase = "complete"], "idle") /\ UNCHANGED at
          \/ /\ Keep(p, s) /\ Goto(p, "start") /\ UNCHANGED rec
             /\ NextPhase(s) # 0 /\ at' = [at EXCEPT ![p] = NextPhase(s)]
      BY <3>1 DEF s
    <3> QED BY <2>6, <3>3, <3>4, <3>5, <3>6
            DEF MTypeOK, ResumeContinues, Persist, Keep, Goto
  <2>7. ASSUME NEW p \in Procs, TakePoint(p) PROVE MTypeOK'
    <3>1. PointOf(st[p]) \in PointType
      BY PointOfType DEF MTypeOK
    <3> QED BY <2>7, <3>1, MigrationAssumption DEF MTypeOK, TakePoint, Goto
  <2>8. ASSUME NEW p \in Procs, TakePointFails(p) PROVE MTypeOK'
    <3>1. /\ Failed(st[p], "plan") \in StateType
          /\ Failed(st[p], Order[at[p]]) \in StateType
      BY FailedFacts, OrderFacts DEF MTypeOK, PhaseNames, Phases
    <3> QED BY <2>8, <3>1 DEF MTypeOK, TakePointFails, Fail, Persist, Keep, Goto
  <2>9. ASSUME NEW p \in Procs, SetPhase(p) PROVE MTypeOK'
    <3> DEFINE s == Mark([st[p] EXCEPT !.phase = Order[at[p]]], Order[at[p]], "running")
    <3>1. st[p] \in StateType /\ Order[at[p]] \in Phases /\ Order[at[p]] \in PhaseNames
          /\ "running" \in Status
      BY OrderFacts DEF MTypeOK, PhaseNames, Status
    <3>2. s \in StateType
      BY <3>1, PhaseFacts, MarkFacts
    <3>3. Persist(p, s, "point")
      BY <2>9 DEF SetPhase
    <3> HIDE DEF s
    <3> QED BY <2>9, <3>2, <3>3 DEF MTypeOK, SetPhase, Persist, Keep, Goto
  <2>10. ASSUME NEW p \in Procs, RunExport(p) PROVE MTypeOK'
    <3>1. source' \in [Workloads -> Power]
      BY <2>10 DEF MTypeOK, RunExport, Power
    <3> QED BY <2>10, <3>1, WorkingFacts DEF MTypeOK, RunExport, Handled
  <2>11. ASSUME NEW p \in Procs, RunConvert(p) PROVE MTypeOK'
    <3>1. done[p] + 1 \in Workloads /\ done' \in [Procs -> 0..N]
      BY <2>11, WorkingFacts DEF RunConvert, Handled
    <3>2. [st[p] EXCEPT !.conv = @ \cup {done[p] + 1}] \in StateType
      BY <3>1, WorkTypes DEF MTypeOK
    <3> QED BY <2>11, <3>1, <3>2 DEF MTypeOK, RunConvert, Keep
  <2>12. ASSUME NEW p \in Procs, RunImport(p) PROVE MTypeOK'
    <3>1. done[p] + 1 \in Workloads /\ done' \in [Procs -> 0..N]
      BY <2>12, WorkingFacts DEF RunImport, Handled
    <3>2. created + 1 \in Nat /\ target \cup {created + 1} \subseteq 1..(created + 1)
      BY DEF MTypeOK
    <3>3. [st[p] EXCEPT !.vm[done[p] + 1] = created + 1] \in StateType
      BY <3>1, <3>2, WorkTypes DEF MTypeOK
    <3> QED BY <2>12, <3>1, <3>2, <3>3 DEF MTypeOK, RunImport, Keep
  <2>13. ASSUME NEW p \in Procs, RunOnTarget(p) PROVE MTypeOK'
    <3>1. done' \in [Procs -> 0..N]
      BY <2>13, WorkingFacts DEF RunOnTarget, Handled
    <3> QED BY <2>13, <3>1 DEF MTypeOK, RunOnTarget
  <2>14. ASSUME NEW p \in Procs, PhaseFails(p) PROVE MTypeOK'
    <3> DEFINE w == done[p] + 1
               s == IF Order[at[p]] = "convert"
                    THEN [st[p] EXCEPT !.conv = @ \ {w}] ELSE st[p]
    <3>1. w \in Workloads
      BY <2>14, WorkingFacts DEF PhaseFails
    <3>2. s \in StateType /\ Order[at[p]] \in PhaseNames
      BY <3>1, WorkTypes, OrderFacts DEF MTypeOK, PhaseNames
    <3>3. Failed(s, Order[at[p]]) \in StateType
      BY <3>2, FailedFacts
    <3>4. source' \in [Workloads -> Power]
      BY <2>14 DEF MTypeOK, PhaseFails, Power
    <3>5. Persist(p, Failed(s, Order[at[p]]), "idle")
      BY <2>14 DEF PhaseFails
    <3> HIDE DEF s, w
    <3> QED BY <2>14, <3>3, <3>4, <3>5 DEF MTypeOK, PhaseFails, Persist, Keep, Goto
  <2>15. ASSUME NEW p \in Procs, PhaseEnds(p) PROVE MTypeOK'
    <3>1. Mark(st[p], Order[at[p]], "completed") \in StateType
      BY OrderFacts, MarkFacts DEF MTypeOK, Status
    <3>2. at' \in [Procs -> 1..5]
      BY <2>15 DEF MTypeOK, PhaseEnds
    <3> QED BY <2>15, <3>1, <3>2 DEF MTypeOK, PhaseEnds, Persist, Keep, Goto
  <2>16. ASSUME NEW p \in Procs, Completes(p) PROVE MTypeOK'
    <3>1. [st[p] EXCEPT !.phase = "complete"] \in StateType
      BY PhaseFacts DEF MTypeOK, PhaseNames
    <3> QED BY <2>16, <3>1 DEF MTypeOK, Completes, Persist, Keep, Goto
  <2>17. ASSUME NEW p \in Procs, RollbackLoads(p) PROVE MTypeOK'
    BY <2>17 DEF MTypeOK, RollbackLoads, Keep, Goto
  <2>18. ASSUME NEW p \in Procs, RollbackRemoves(p) PROVE MTypeOK'
    BY <2>18 DEF MTypeOK, RollbackRemoves, Note, Goto
  <2>19. ASSUME NEW p \in Procs, RollbackCleans(p) PROVE MTypeOK'
    BY <2>19 DEF MTypeOK, RollbackCleans, Note, Goto
  <2>20. ASSUME NEW p \in Procs, RollbackRestores(p) PROVE MTypeOK'
    <3>1. rp[p].power \in [Workloads -> Power]
      BY DEF MTypeOK, PointType
    <3>2. source' \in [Workloads -> Power]
      BY <2>20, <3>1 DEF MTypeOK, RollbackRestores
    <3> QED BY <2>20, <3>2 DEF MTypeOK, RollbackRestores, Note, Goto
  <2>21. ASSUME NEW p \in Procs, RollbackSaves(p) PROVE MTypeOK'
    <3>1. /\ [st[p] EXCEPT !.phase = "failed"] \in StateType
          /\ [st[p] EXCEPT !.phase = "rolled_back"] \in StateType
      BY PhaseFacts DEF MTypeOK, PhaseNames
    <3> QED BY <2>21, <3>1 DEF MTypeOK, RollbackSaves, Persist, Keep, Goto
  <2>22. ASSUME NEW p \in Procs, Abandon(p) PROVE MTypeOK'
    BY <2>22 DEF MTypeOK, Abandon, Goto
  <2> QED BY <2>0, <2>1, <2>2, <2>3, <2>4, <2>5, <2>6, <2>7, <2>8, <2>9, <2>10,
             <2>11, <2>12, <2>13, <2>14, <2>15, <2>16, <2>17, <2>18, <2>19,
             <2>20, <2>21, <2>22 DEF MNext, RunPhase, RunWorkload, RollbackStep
<1> QED BY <1>1, <1>2, PTL DEF MSpec

-----------------------------------------------------------------------------
\* Checkpoints.

AllPending(s) == \A j \in 1..5 : s.cp[Order[j]] = "pending"

AllCompleted(s) == \A j \in 1..5 : s.cp[Order[j]] = "completed"

\* State s is at its i-th phase: the phases before it are completed and the
\* ones behind it have not begun.
Reached(s, i) ==
  \A j \in 1..5 : /\ j < i => s.cp[Order[j]] = "completed"
                  /\ j > i => s.cp[Order[j]] = "pending"

\* What holds of every migration state, in the store and in the copies: a
\* state whose phase is one that runs has reached that phase, which is why a
\* resumption that fails may mark it.
StateInv(s) ==
  /\ Prefix(s)
  /\ s.phase = "complete" => AllCompleted(s)
  /\ \A i \in 1..5 : s.phase = Order[i] => Reached(s, i)

\* What holds of the copy s of an operation o that is at place l and phase i.
PlaceInv(l, o, s, i) ==
  /\ StateInv(s)
  /\ (l = "discover" /\ o = "execute") \/ l = "begin" =>
       s.phase = "plan" /\ AllPending(s)
  /\ l \in {"start", "point", "work"} => Reached(s, i)
  /\ l \in {"point", "work"} => s.phase = Order[i]
  /\ l = "final" => AllCompleted(s)

CheckpointInv ==
  /\ StateInv(rec)
  /\ \A p \in Procs : PlaceInv(pc[p], op[p], st[p], at[p])

\* A state that has reached a phase has a prefix of checkpoints.
LEMMA ReachedIsPrefix ==
  ASSUME NEW s, NEW i \in 1..5, Reached(s, i)
  PROVE  Prefix(s)
<1> SUFFICES ASSUME NEW j \in 1..4, s.cp[Order[j + 1]] # "pending"
             PROVE  s.cp[Order[j]] = "completed"
  BY DEF Prefix
<1>1. j \in 1..5 /\ j + 1 \in 1..5
  OBVIOUS
<1>2. ~(j + 1 > i)
  BY <1>1 DEF Reached
<1>3. j < i
  BY <1>1, <1>2
<1> QED BY <1>1, <1>3 DEF Reached

\* The first incomplete phase of a prefix is the phase the state has reached.
LEMMA PrefixReaches ==
  ASSUME NEW s, NEW i \in 1..5, Prefix(s), s.cp[Order[i]] # "completed",
         \A j \in 1..5 : j < i => s.cp[Order[j]] = "completed"
  PROVE  Reached(s, i)
<1>1. \A j \in 1..4 : s.cp[Order[j]] # "completed" => s.cp[Order[j + 1]] = "pending"
  BY DEF Prefix
<1>2. i < 2 => s.cp[Order[2]] # "completed"
  BY <1>1
<1>3. i < 3 => s.cp[Order[3]] # "completed"
  BY <1>1, <1>2
<1>4. i < 4 => s.cp[Order[4]] # "completed"
  BY <1>1, <1>3
<1>5. \A j \in 1..5 : j > i => s.cp[Order[j]] = "pending"
  <2> SUFFICES ASSUME NEW j \in 1..5, j > i PROVE s.cp[Order[j]] = "pending"
    OBVIOUS
  <2>1. j - 1 \in 1..4 /\ (j - 1) + 1 = j
    OBVIOUS
  <2>2. s.cp[Order[j - 1]] # "completed"
    BY <1>2, <1>3, <1>4
  <2> QED BY <1>1, <2>1, <2>2
<1> QED BY <1>5 DEF Reached

\* The same checkpoints under another phase that does not run.
LEMMA SameCheckpoints ==
  ASSUME NEW s, NEW t, StateInv(s), t.cp = s.cp,
         t.phase = s.phase \/ t.phase \in {"plan", "failed", "rolled_back"}
                           \/ (t.phase = "complete" /\ AllCompleted(s))
  PROVE  StateInv(t)
BY OrderFacts DEF StateInv, Prefix, Reached, AllCompleted

\* failState preserves the invariant when the phase it is given does not run
\* or has been reached.
LEMMA FailedInv ==
  ASSUME NEW s \in StateType, NEW ph \in PhaseNames, StateInv(s),
         \A i \in 1..5 : ph = Order[i] => Reached(s, i)
  PROVE  StateInv(Failed(s, ph))
<1> DEFINE t == Failed(s, ph)
<1>1. t.phase = "failed" /\ \A q \in Phases : q # ph => t.cp[q] = s.cp[q]
  BY FailedFacts
<1>2. CASE \E i \in 1..5 : ph = Order[i]
  <2>1. PICK i \in 1..5 : ph = Order[i]
    BY <1>2
  <2>2. \A j \in 1..5 : j # i => t.cp[Order[j]] = s.cp[Order[j]]
    BY <1>1, <2>1, OrderFacts
  <2>3. Reached(t, i)
    BY <2>1, <2>2 DEF Reached
  <2>4. Prefix(t)
    BY <2>3, ReachedIsPrefix
  <2> QED BY <1>1, <2>4, OrderFacts DEF StateInv
<1>3. CASE \A i \in 1..5 : ph # Order[i]
  <2>1. \A j \in 1..5 : t.cp[Order[j]] = s.cp[Order[j]]
    BY <1>1, <1>3, OrderFacts
  <2>2. Prefix(t)
    BY <2>1 DEF StateInv, Prefix
  <2> QED BY <1>1, <2>2, OrderFacts DEF StateInv
<1> QED BY <1>2, <1>3

\* Only operation p takes a step, and what it stores, if anything, is its copy.
StepOf(p) ==
  /\ \A q \in Procs \ {p} : /\ pc'[q] = pc[q] /\ op'[q] = op[q]
                            /\ st'[q] = st[q] /\ at'[q] = at[q]
  /\ rec' = rec \/ rec' = st'[p]

\* The invariant of the other operations is kept by such a step.
LEMMA StepOfOne ==
  ASSUME CheckpointInv, NEW p \in Procs, StepOf(p),
         PlaceInv(pc'[p], op'[p], st'[p], at'[p])
  PROVE  CheckpointInv'
<1>1. StateInv(rec')
  BY DEF CheckpointInv, PlaceInv, StepOf
<1>2. ASSUME NEW q \in Procs PROVE PlaceInv(pc'[q], op'[q], st'[q], at'[q])
  <2>1. CASE q = p
    BY <2>1
  <2>2. CASE q # p
    <3>1. pc'[q] = pc[q] /\ op'[q] = op[q] /\ st'[q] = st[q] /\ at'[q] = at[q]
      BY <2>2 DEF StepOf
    <3>2. PlaceInv(pc[q], op[q], st[q], at[q])
      BY DEF CheckpointInv
    <3> QED BY <3>1, <3>2
  <2> QED BY <2>1, <2>2
<1>3. CheckpointInv' <=> /\ StateInv(rec')
                         /\ \A q \in Procs : PlaceInv(pc'[q], op'[q], st'[q], at'[q])
  BY DEF CheckpointInv, PlaceInv, StateInv, Prefix, Reached, AllPending, AllCompleted
<1> QED BY <1>1, <1>2, <1>3

\* An operation that is over, or that a rollback runs, needs StateInv only.
LEMMA QuietPlace ==
  ASSUME NEW l \in {"idle", "load", "remove", "clean", "restore", "save"},
         NEW o, NEW s, NEW i, StateInv(s)
  PROVE  PlaceInv(l, o, s, i)
BY DEF PlaceInv

\* The invariant holds at the start: nothing is stored and no phase has begun.
LEMMA CheckpointInit == MInit => CheckpointInv
<1> SUFFICES ASSUME MInit PROVE CheckpointInv
  OBVIOUS
<1>1. /\ NewState.phase = "plan" /\ NotStored.phase = "none"
      /\ \A q \in Phases : NewState.cp[q] = "pending" /\ NotStored.cp[q] = "pending"
  BY DEF NewState, NotStored
<1>2. AllPending(NewState) /\ AllPending(NotStored)
  BY <1>1, OrderFacts DEF AllPending
<1>3. StateInv(NewState) /\ StateInv(NotStored)
  BY <1>1, <1>2, OrderFacts DEF StateInv, Prefix, AllPending
<1>4. \A p \in Procs : pc[p] = "idle" /\ st[p] = NewState
  BY DEF MInit
<1> QED BY <1>3, <1>4, QuietPlace DEF MInit, CheckpointInv

\* Every step of every operation preserves the invariant.
LEMMA CheckpointStep ==
  ASSUME MTypeOK, CheckpointInv, [MNext]_mvars
  PROVE  CheckpointInv'
<1> USE DEF stored, world
<1>0. CASE UNCHANGED mvars
  BY <1>0 DEF mvars, procs, CheckpointInv, PlaceInv, StateInv, Prefix, Reached,
              AllPending, AllCompleted
<1>1. ASSUME NEW p \in Procs, StartExecute(p) PROVE CheckpointInv'
  <2>1. NewState.phase = "plan" /\ \A q \in Phases : NewState.cp[q] = "pending"
    BY DEF NewState
  <2>2. AllPending(NewState) /\ StateInv(NewState)
    BY <2>1, OrderFacts DEF StateInv, Prefix, AllPending
  <2>3. PlaceInv("discover", "execute", NewState, at[p])
    BY <2>1, <2>2 DEF PlaceInv
  <2>9. /\ pc'[p] = "discover" /\ op'[p] = "execute" /\ st'[p] = NewState /\ at'[p] = at[p]
       /\ StepOf(p)
    BY <1>1 DEF MTypeOK, StepOf, StartExecute, Begin, Keep, Goto
  <2> QED BY <2>9, <2>3, StepOfOne
<1>2. ASSUME NEW p \in Procs, StartResume(p) PROVE CheckpointInv'
  <2>1. PlaceInv("discover", "resume", rec, at[p])
    BY DEF PlaceInv, CheckpointInv
  <2>9. /\ pc'[p] = "discover" /\ op'[p] = "resume" /\ st'[p] = rec /\ at'[p] = at[p]
       /\ StepOf(p)
    BY <1>2 DEF MTypeOK, StepOf, StartResume, Begin, Keep, Goto
  <2> QED BY <2>9, <2>1, StepOfOne
<1>3. ASSUME NEW p \in Procs, StartRollback(p) PROVE CheckpointInv'
  <2>1. PlaceInv("load", "rollback", st[p], at[p])
    BY QuietPlace DEF CheckpointInv, PlaceInv
  <2>9. /\ pc'[p] = "load" /\ op'[p] = "rollback" /\ st'[p] = st[p] /\ at'[p] = at[p]
       /\ StepOf(p)
    BY <1>3 DEF MTypeOK, StepOf, StartRollback, Begin, Goto
  <2> QED BY <2>9, <2>1, StepOfOne
<1>4. ASSUME NEW p \in Procs, DiscoverFails(p) PROVE CheckpointInv'
  <2>1. PICK ph \in {"plan", st[p].phase} : Fail(p, ph)
    BY <1>4 DEF DiscoverFails
  <2>2. st[p] \in StateType /\ ph \in PhaseNames /\ StateInv(st[p])
    BY DEF MTypeOK, StateType, PhaseNames, Phases, CheckpointInv, PlaceInv
  <2>3. \A i \in 1..5 : ph = Order[i] => Reached(st[p], i)
    BY <2>2, OrderFacts DEF StateInv
  <2>4. PlaceInv("idle", op[p], Failed(st[p], ph), at[p])
    BY <2>2, <2>3, FailedInv, QuietPlace
  <2>9. /\ pc'[p] = "idle" /\ op'[p] = op[p] /\ st'[p] = Failed(st[p], ph) /\ at'[p] = at[p]
       /\ StepOf(p)
    BY <1>4, <2>1 DEF MTypeOK, StepOf, DiscoverFails, Fail, Persist, Keep, Goto
  <2> QED BY <2>9, <2>4, StepOfOne
<1>5. ASSUME NEW p \in Procs, ExecutePlans(p) PROVE CheckpointInv'
  <2>1. PICK n \in Matches :
          LET s == Planned(st[p], n)
          IN IF n = 0
             THEN Persist(p, Failed(s, "plan"), "idle")
             ELSE \E l \in {"idle", "begin"} : Persist(p, Mark(s, "plan", "completed"), l)
    BY <1>5 DEF ExecutePlans
  <2> DEFINE s == Planned(st[p], n)
  <2>2. /\ s \in StateType /\ s.phase = st[p].phase /\ s.cp = st[p].cp
        /\ "plan" \in Phases /\ "plan" \in PhaseNames /\ "completed" \in Status
    BY PlannedFacts DEF MTypeOK, Matches, Phases, PhaseNames, Status
  <2>3. st[p].phase = "plan" /\ AllPending(st[p])
    BY <1>5 DEF ExecutePlans, CheckpointInv, PlaceInv
  <2>4. s.phase = "plan" /\ AllPending(s)
    BY <2>2, <2>3 DEF AllPending
  <2>5. StateInv(s)
    BY <2>4, OrderFacts DEF StateInv, Prefix, AllPending
  <2> HIDE DEF s
  <2>6. CASE Persist(p, Failed(s, "plan"), "idle")
    <3>1. PlaceInv("idle", op[p], Failed(s, "plan"), at[p])
      BY <2>2, <2>5, OrderFacts, FailedInv, QuietPlace
    <3>9. /\ pc'[p] = "idle" /\ op'[p] = op[p] /\ st'[p] = Failed(s, "plan") /\ at'[p] = at[p]
         /\ StepOf(p)
      BY <1>5, <2>6 DEF MTypeOK, StepOf, ExecutePlans, Persist, Keep, Goto
    <3> QED BY <3>9, <3>1, StepOfOne
  <2>7. ASSUME NEW l \in {"idle", "begin"}, Persist(p, Mark(s, "plan", "completed"), l)
        PROVE  CheckpointInv'
    <3> DEFINE t == Mark(s, "plan", "completed")
    <3>1. t.phase = "plan" /\ \A q \in Phases : q # "plan" => t.cp[q] = s.cp[q]
      BY <2>2, <2>4, MarkFacts
    <3>2. AllPending(t)
      BY <2>4, <3>1, OrderFacts DEF AllPending
    <3>3. StateInv(t)
      BY <3>1, <3>2, OrderFacts DEF StateInv, Prefix, AllPending
    <3> HIDE DEF t
    <3>4. PlaceInv(l, op[p], t, at[p])
      BY <3>1, <3>2, <3>3 DEF PlaceInv
    <3>5. Persist(p, t, l)
      BY <2>7 DEF t
    <3>9. /\ pc'[p] = l /\ op'[p] = op[p] /\ st'[p] = t /\ at'[p] = at[p]
         /\ StepOf(p)
      BY <1>5, <3>5 DEF MTypeOK, StepOf, ExecutePlans, Persist, Keep, Goto
    <3> QED BY <3>9, <3>4, StepOfOne
  <2> QED BY <2>1, <2>6, <2>7 DEF s
<1>6. ASSUME NEW p \in Procs, ResumeContinues(p) PROVE CheckpointInv'
  <2>1. PICK n \in Matches :
          LET s == IF st[p].n = 0 THEN Planned(st[p], n)
                   ELSE [st[p] EXCEPT !.planned = TRUE]
          IN \/ Persist(p, s, "idle") /\ UNCHANGED at
             \/ /\ NextPhase(s) = 0
                /\ Persist(p, [s EXCEPT !.phase = "complete"], "idle")
                /\ UNCHANGED at
             \/ /\ NextPhase(s) # 0
                /\ Keep(p, s) /\ Goto(p, "start")
                /\ at' = [at EXCEPT ![p] = NextPhase(s)]
                /\ UNCHANGED rec
    BY <1>6 DEF ResumeContinues
  <2> DEFINE s == IF st[p].n = 0 THEN Planned(st[p], n)
                  ELSE [st[p] EXCEPT !.planned = TRUE]
  <2>2. s \in StateType /\ s.phase = st[p].phase /\ s.cp = st[p].cp
    <3>1. st[p] \in StateType /\ source \in [Workloads -> Power] /\ n \in {0, N}
      BY DEF MTypeOK, Matches
    <3>2. LET t == [st[p] EXCEPT !.planned = TRUE]
          IN t \in StateType /\ t.phase = st[p].phase /\ t.cp = st[p].cp
      BY <3>1 DEF StateType
    <3> QED BY <3>1, <3>2, PlannedFacts
  <2>3. StateInv(s)
    BY <2>2, SameCheckpoints DEF CheckpointInv, PlaceInv
  <2> HIDE DEF s
  <2>4. CASE Persist(p, s, "idle") /\ UNCHANGED at
    <3>9. /\ pc'[p] = "idle" /\ op'[p] = op[p] /\ st'[p] = s /\ at'[p] = at[p]
         /\ StepOf(p)
      BY <1>6, <2>4 DEF MTypeOK, StepOf, ResumeContinues, Persist, Keep, Goto
    <3> QED BY <3>9, <2>3, QuietPlace, StepOfOne
  <2>5. CASE NextPhase(s) = 0 /\ Persist(p, [s EXCEPT !.phase = "complete"], "idle")
             /\ UNCHANGED at
    <3>1. AllCompleted(s)
      BY <2>5, NextPhaseFacts DEF AllCompleted
    <3>2. StateInv([s EXCEPT !.phase = "complete"])
      BY <2>2, <2>3, <3>1, PhaseFacts, SameCheckpoints DEF PhaseNames
    <3>9. /\ pc'[p] = "idle" /\ op'[p] = op[p] /\ st'[p] = [s EXCEPT !.phase = "complete"] /\ at'[p] = at[p]
         /\ StepOf(p)
      BY <1>6, <2>5 DEF MTypeOK, StepOf, ResumeContinues, Persist, Keep, Goto
    <3> QED BY <3>9, <3>2, QuietPlace, StepOfOne
  <2>6. CASE /\ NextPhase(s) # 0 /\ Keep(p, s) /\ Goto(p, "start")
             /\ at' = [at EXCEPT ![p] = NextPhase(s)] /\ UNCHANGED rec
    <3>1. Reached(s, NextPhase(s))
      BY <2>3, <2>6, NextPhaseFacts, PrefixReaches DEF StateInv
    <3>2. PlaceInv("start", op[p], s, NextPhase(s))
      BY <2>3, <3>1 DEF PlaceInv
    <3>9. /\ pc'[p] = "start" /\ op'[p] = op[p] /\ st'[p] = s /\ at'[p] = NextPhase(s)
         /\ StepOf(p)
      BY <1>6, <2>6 DEF MTypeOK, StepOf, ResumeContinues, Keep, Goto
    <3> QED BY <3>9, <3>2, StepOfOne
  <2> QED BY <2>1, <2>4, <2>5, <2>6 DEF s
<1>7. ASSUME NEW p \in Procs, TakePoint(p) PROVE CheckpointInv'
  <2>1. PlaceInv(pc[p], op[p], st[p], at[p]) /\ at[p] \in 1..5
    BY DEF CheckpointInv, MTypeOK
  <2>2. CASE pc[p] = "begin"
    <3>1. Reached(st[p], 1)
      BY <2>1, <2>2 DEF PlaceInv, AllPending, Reached
    <3>2. PlaceInv("start", op[p], st[p], 1)
      BY <2>1, <3>1 DEF PlaceInv
    <3>9. /\ pc'[p] = "start" /\ op'[p] = op[p] /\ st'[p] = st[p] /\ at'[p] = 1
         /\ StepOf(p)
      BY <1>7, <2>2 DEF MTypeOK, StepOf, TakePoint, Goto
    <3> QED BY <3>9, <3>2, StepOfOne
  <2>3. CASE pc[p] = "point"
    <3>1. PlaceInv("work", op[p], st[p], at[p])
      BY <2>1, <2>3 DEF PlaceInv
    <3>9. /\ pc'[p] = "work" /\ op'[p] = op[p] /\ st'[p] = st[p] /\ at'[p] = at[p]
         /\ StepOf(p)
      BY <1>7, <2>3 DEF MTypeOK, StepOf, TakePoint, Goto
    <3> QED BY <3>9, <3>1, StepOfOne
  <2> QED BY <1>7, <2>2, <2>3 DEF TakePoint
<1>8. ASSUME NEW p \in Procs, TakePointFails(p) PROVE CheckpointInv'
  <2>1. /\ PlaceInv(pc[p], op[p], st[p], at[p]) /\ at[p] \in 1..5
        /\ st[p] \in StateType
    BY DEF CheckpointInv, MTypeOK
  <2> DEFINE ph == IF pc[p] = "begin" THEN "plan" ELSE Order[at[p]]
  <2>2. ph \in PhaseNames /\ \A i \in 1..5 : ph = Order[i] => Reached(st[p], i)
    BY <1>8, <2>1, OrderFacts DEF TakePointFails, PlaceInv, PhaseNames, Phases
  <2>3. Fail(p, ph)
    BY <1>8 DEF TakePointFails
  <2> HIDE DEF ph
  <2>4. PlaceInv("idle", op[p], Failed(st[p], ph), at[p])
    BY <2>1, <2>2, FailedInv, QuietPlace DEF PlaceInv
  <2>9. /\ pc'[p] = "idle" /\ op'[p] = op[p] /\ st'[p] = Failed(st[p], ph) /\ at'[p] = at[p]
       /\ StepOf(p)
    BY <1>8, <2>3 DEF MTypeOK, StepOf, TakePointFails, Fail, Persist, Keep, Goto
  <2> QED BY <2>9, <2>4, StepOfOne
<1>9. ASSUME NEW p \in Procs, SetPhase(p) PROVE CheckpointInv'
  <2> DEFINE i == at[p]
             t == [st[p] EXCEPT !.phase = Order[i]]
             s == Mark(t, Order[i], "running")
  <2>1. /\ i \in 1..5 /\ st[p] \in StateType /\ Reached(st[p], i)
        /\ Order[i] \in Phases /\ Order[i] \in PhaseNames /\ "running" \in Status
    BY <1>9, OrderFacts DEF SetPhase, CheckpointInv, PlaceInv, MTypeOK, PhaseNames, Status
  <2>2. t \in StateType /\ t.phase = Order[i] /\ t.cp = st[p].cp
    BY <2>1, PhaseFacts
  <2> HIDE DEF t
  <2>3. s.phase = Order[i] /\ \A q \in Phases : q # Order[i] => s.cp[q] = st[p].cp[q]
    BY <2>1, <2>2, MarkFacts
  <2>4. Persist(p, s, "point")
    BY <1>9 DEF SetPhase, t
  <2> HIDE DEF s, i
  <2>5. Reached(s, i)
    BY <2>1, <2>3, OrderFacts DEF Reached
  <2>6. StateInv(s)
    BY <2>1, <2>3, <2>5, ReachedIsPrefix, OrderFacts DEF StateInv
  <2>7. PlaceInv("point", op[p], s, i)
    BY <2>3, <2>5, <2>6 DEF PlaceInv
  <2>9. /\ pc'[p] = "point" /\ op'[p] = op[p] /\ st'[p] = s /\ at'[p] = i
       /\ StepOf(p)
    BY <1>9, <2>4 DEF MTypeOK, StepOf, SetPhase, Persist, Keep, Goto, i
  <2> QED BY <2>9, <2>7, StepOfOne
<1>10. ASSUME NEW p \in Procs, RunExport(p) \/ RunOnTarget(p) PROVE CheckpointInv'
  <2>1. UNCHANGED <<rec, pc, op, st, at>>
    BY <1>10 DEF RunExport, RunOnTarget
  <2> QED BY <2>1 DEF CheckpointInv, PlaceInv, StateInv, Prefix, Reached,
                      AllPending, AllCompleted
<1>11. ASSUME NEW p \in Procs, RunConvert(p) \/ RunImport(p) PROVE CheckpointInv'
  <2>1. PICK s : /\ Keep(p, s) /\ s.phase = st[p].phase /\ s.cp = st[p].cp
                 /\ UNCHANGED <<rec, pc, op, at>>
    <3>1. st[p] \in StateType
      BY DEF MTypeOK
    <3>2. CASE RunConvert(p)
      <4> DEFINE t == [st[p] EXCEPT !.conv = @ \cup {done[p] + 1}]
      <4>1. t.phase = st[p].phase /\ t.cp = st[p].cp
        BY <3>1 DEF StateType
      <4>2. Keep(p, t) /\ UNCHANGED <<rec, pc, op, at>>
        BY <3>2 DEF RunConvert
      <4> HIDE DEF t
      <4> QED BY <4>1, <4>2
    <3>3. CASE RunImport(p)
      <4> DEFINE t == [st[p] EXCEPT !.vm[done[p] + 1] = created + 1]
      <4>1. t.phase = st[p].phase /\ t.cp = st[p].cp
        BY <3>1 DEF StateType
      <4>2. Keep(p, t) /\ UNCHANGED <<rec, pc, op, at>>
        BY <3>3 DEF RunImport
      <4> HIDE DEF t
      <4> QED BY <4>1, <4>2
    <3> QED BY <1>11, <3>2, <3>3
  <2>2. PlaceInv(pc[p], op[p], st[p], at[p])
    BY DEF CheckpointInv
  <2>3. PlaceInv(pc[p], op[p], s, at[p])
    BY <2>1, <2>2, SameCheckpoints DEF PlaceInv, Reached, AllPending, AllCompleted
  <2>9. /\ pc'[p] = pc[p] /\ op'[p] = op[p] /\ st'[p] = s /\ at'[p] = at[p]
       /\ StepOf(p)
    BY <2>1 DEF MTypeOK, StepOf, Keep
  <2> QED BY <2>9, <2>3, StepOfOne
<1>12. ASSUME NEW p \in Procs, PhaseFails(p) PROVE CheckpointInv'
  <2> DEFINE w == done[p] + 1
             s == IF Order[at[p]] = "convert"
                  THEN [st[p] EXCEPT !.conv = @ \ {w}] ELSE st[p]
  <2>1. w \in Workloads /\ pc[p] = "work"
    BY <1>12, WorkingFacts DEF PhaseFails, Working
  <2>2. /\ PlaceInv("work", op[p], st[p], at[p]) /\ at[p] \in 1..5
        /\ st[p] \in StateType
    BY <2>1 DEF CheckpointInv, MTypeOK
  <2>3. s \in StateType /\ s.phase = st[p].phase /\ s.cp = st[p].cp
    BY <2>2 DEF StateType
  <2>4. Persist(p, Failed(s, Order[at[p]]), "idle")
    BY <1>12 DEF PhaseFails
  <2> HIDE DEF s, w
  <2>5. StateInv(s) /\ Reached(s, at[p])
    BY <2>2, <2>3, SameCheckpoints DEF PlaceInv, Reached
  <2>6. /\ Order[at[p]] \in PhaseNames
        /\ \A i \in 1..5 : Order[at[p]] = Order[i] => Reached(s, i)
    BY <2>2, <2>5, OrderFacts DEF PhaseNames
  <2>7. PlaceInv("idle", op[p], Failed(s, Order[at[p]]), at[p])
    BY <2>3, <2>5, <2>6, FailedInv, QuietPlace
  <2>9. /\ pc'[p] = "idle" /\ op'[p] = op[p] /\ st'[p] = Failed(s, Order[at[p]]) /\ at'[p] = at[p]
       /\ StepOf(p)
    BY <1>12, <2>4 DEF MTypeOK, StepOf, PhaseFails, Persist, Keep, Goto
  <2> QED BY <2>9, <2>7, StepOfOne
<1>13. ASSUME NEW p \in Procs, PhaseEnds(p) PROVE CheckpointInv'
  <2> DEFINE i == at[p]
             s == Mark(st[p], Order[i], "completed")
             k == IF i = 5 THEN 5 ELSE i + 1
             l == IF i = 5 THEN "final" ELSE "start"
  <2>1. /\ i \in 1..5 /\ st[p] \in StateType /\ Order[i] \in Phases
        /\ "completed" \in Status
        /\ Reached(st[p], i) /\ st[p].phase = Order[i]
    BY <1>13, OrderFacts DEF PhaseEnds, CheckpointInv, PlaceInv, MTypeOK, Status
  <2>2. /\ s.phase = Order[i] /\ s.cp[Order[i]] = "completed"
        /\ \A q \in Phases : q # Order[i] => s.cp[q] = st[p].cp[q]
    BY <2>1, MarkFacts
  <2>3. Persist(p, s, l) /\ at' = [at EXCEPT ![p] = k] /\ UNCHANGED op
    BY <1>13 DEF PhaseEnds
  <2> HIDE DEF s, i
  <2>4. \A j \in 1..5 : /\ j <= i => s.cp[Order[j]] = "completed"
                        /\ j > i => s.cp[Order[j]] = "pending"
    BY <2>1, <2>2, OrderFacts DEF Reached
  <2>5. Reached(s, i) /\ Reached(s, k) /\ (i = 5 => AllCompleted(s))
    BY <2>1, <2>4 DEF Reached, AllCompleted
  <2>6. StateInv(s)
    BY <2>1, <2>2, <2>5, ReachedIsPrefix, OrderFacts DEF StateInv
  <2>7. PlaceInv(l, op[p], s, k)
    BY <2>5, <2>6 DEF PlaceInv
  <2> HIDE DEF k, l
  <2>9. /\ pc'[p] = l /\ op'[p] = op[p] /\ st'[p] = s /\ at'[p] = k
       /\ StepOf(p)
    BY <2>3 DEF MTypeOK, StepOf, Persist, Keep, Goto
  <2> QED BY <2>9, <2>7, StepOfOne
<1>14. ASSUME NEW p \in Procs, Completes(p) PROVE CheckpointInv'
  <2>1. /\ StateInv(st[p]) /\ AllCompleted(st[p]) /\ st[p] \in StateType
    BY <1>14 DEF Completes, CheckpointInv, PlaceInv, MTypeOK
  <2>2. StateInv([st[p] EXCEPT !.phase = "complete"])
    BY <2>1, PhaseFacts, SameCheckpoints DEF PhaseNames
  <2>9. /\ pc'[p] = "idle" /\ op'[p] = op[p] /\ st'[p] = [st[p] EXCEPT !.phase = "complete"] /\ at'[p] = at[p]
       /\ StepOf(p)
    BY <1>14 DEF MTypeOK, StepOf, Completes, Persist, Keep, Goto
  <2> QED BY <2>9, <2>2, QuietPlace, StepOfOne
<1>15. ASSUME NEW p \in Procs, RollbackLoads(p) PROVE CheckpointInv'
  <2>1. PlaceInv("remove", op[p], rec, at[p])
    BY QuietPlace DEF CheckpointInv
  <2>9. /\ pc'[p] = "remove" /\ op'[p] = op[p] /\ st'[p] = rec /\ at'[p] = at[p]
       /\ StepOf(p)
    BY <1>15 DEF MTypeOK, StepOf, RollbackLoads, Keep, Goto
  <2> QED BY <2>9, <2>1, StepOfOne
<1>16. ASSUME NEW p \in Procs,
              RollbackRemoves(p) \/ RollbackCleans(p) \/ RollbackRestores(p)
       PROVE  CheckpointInv'
  <2>1. PICK l \in {"clean", "restore", "save"} : Goto(p, l) /\ UNCHANGED <<rec, op, st, at>>
    BY <1>16 DEF RollbackRemoves, RollbackCleans, RollbackRestores
  <2>2. PlaceInv(l, op[p], st[p], at[p])
    BY QuietPlace DEF CheckpointInv, PlaceInv
  <2>9. /\ pc'[p] = l /\ op'[p] = op[p] /\ st'[p] = st[p] /\ at'[p] = at[p]
       /\ StepOf(p)
    BY <2>1 DEF MTypeOK, StepOf, Goto
  <2> QED BY <2>9, <2>2, StepOfOne
<1>17. ASSUME NEW p \in Procs, RollbackSaves(p) PROVE CheckpointInv'
  <2> DEFINE ph == IF errs[p] THEN "failed" ELSE "rolled_back"
  <2>1. StateInv(st[p]) /\ st[p] \in StateType /\ ph \in PhaseNames
    BY DEF CheckpointInv, PlaceInv, MTypeOK, PhaseNames
  <2>2. StateInv([st[p] EXCEPT !.phase = ph])
    BY <2>1, PhaseFacts, SameCheckpoints
  <2>3. Persist(p, [st[p] EXCEPT !.phase = ph], "idle") /\ UNCHANGED <<op, at>>
    BY <1>17 DEF RollbackSaves
  <2> HIDE DEF ph
  <2>9. /\ pc'[p] = "idle" /\ op'[p] = op[p] /\ st'[p] = [st[p] EXCEPT !.phase = ph] /\ at'[p] = at[p]
       /\ StepOf(p)
    BY <2>3 DEF MTypeOK, StepOf, Persist, Keep, Goto
  <2> QED BY <2>9, <2>2, QuietPlace, StepOfOne
<1>18. ASSUME NEW p \in Procs, Abandon(p) PROVE CheckpointInv'
  <2>1. PlaceInv("idle", op[p], st[p], at[p])
    BY QuietPlace DEF CheckpointInv, PlaceInv
  <2>9. /\ pc'[p] = "idle" /\ op'[p] = op[p] /\ st'[p] = st[p] /\ at'[p] = at[p]
       /\ StepOf(p)
    BY <1>18 DEF MTypeOK, StepOf, Abandon, Goto
  <2> QED BY <2>9, <2>1, StepOfOne
<1> QED BY <1>0, <1>1, <1>2, <1>3, <1>4, <1>5, <1>6, <1>7, <1>8, <1>9, <1>10,
           <1>11, <1>12, <1>13, <1>14, <1>15, <1>16, <1>17, <1>18
        DEF MNext, RunPhase, RunWorkload, RollbackStep

\* For every number of overlapping executions, resumptions and rollbacks, with
\* every fault and crash, the stored checkpoints are a completed prefix, and a
\* migration stored as complete has completed all its phases.
THEOREM CheckpointsStayPrefix == MSpec => []CheckpointPrefix
<1>1. CheckpointInv => CheckpointPrefix
  BY DEF CheckpointInv, StateInv, AllCompleted, CheckpointPrefix
<1>2. MTypeOK /\ CheckpointInv /\ [MNext]_mvars => CheckpointInv'
  BY CheckpointStep
<1> QED BY <1>1, <1>2, CheckpointInit, TypeCorrect, PTL DEF MSpec

\* For every number of operations and workloads, the record of a migration is
\* well formed and its checkpoints are what nextPhaseStartIndex relies on.
THEOREM RecordsConsistent == MSpec => []RecordIsConsistent
<1>1. MTypeOK /\ CheckpointPrefix => RecordIsConsistent
  BY DEF RecordIsConsistent
<1> QED BY <1>1, TypeCorrect, CheckpointsStayPrefix, PTL

-----------------------------------------------------------------------------
\* What completed checkpoints stand for.

\* States that differ in phase, checkpoints and planning only.
SameWork(s, t) ==
  t.n = s.n /\ t.vm = s.vm /\ t.conv = s.conv /\ t.power = s.power

\* Marking a checkpoint leaves the workloads' fields alone.
LEMMA MarkWork ==
  ASSUME NEW s \in StateType, NEW ph \in Phases, NEW x \in Status
  PROVE  SameWork(s, Mark(s, ph, x))
BY DEF Mark, StateType, SameWork

\* So does writing the phase.
LEMMA PhaseWork ==
  ASSUME NEW s \in StateType, NEW ph \in PhaseNames
  PROVE  SameWork(s, [s EXCEPT !.phase = ph])
BY DEF StateType, SameWork

\* So does failState.
LEMMA FailedWork ==
  ASSUME NEW s \in StateType, NEW ph \in PhaseNames
  PROVE  SameWork(s, Failed(s, ph))
<1>1. "failed" \in Status /\ "failed" \in PhaseNames
  BY DEF Status, PhaseNames
<1>2. CASE ph \in Phases
  <2>1. Failed(s, ph) = [Mark(s, ph, "failed") EXCEPT !.phase = "failed"]
    BY <1>2 DEF Failed
  <2>2. Mark(s, ph, "failed") \in StateType
    BY <1>1, <1>2, MarkFacts
  <2> QED BY <1>1, <1>2, <2>1, <2>2, MarkWork, PhaseWork DEF SameWork
<1>3. CASE ph \notin Phases
  <2>1. Failed(s, ph) = [s EXCEPT !.phase = "failed"]
    BY <1>3 DEF Failed
  <2> QED BY <1>1, <2>1, PhaseWork
<1> QED BY <1>2, <1>3

\* A plan sets the workloads and their power, not what phases recorded.
LEMMA PlannedWork ==
  ASSUME NEW s \in StateType, NEW n \in {0, N}, source \in [Workloads -> Power]
  PROVE  /\ Planned(s, n).n = n /\ Planned(s, n).vm = s.vm /\ Planned(s, n).conv = s.conv
         /\ n = N => Planned(s, n).power = source
<1>1. [w \in Workloads |-> IF w <= n THEN source[w] ELSE "off"] \in [Workloads -> Power]
  BY DEF Power
<1>2. n = N => [w \in Workloads |-> IF w <= n THEN source[w] ELSE "off"] = source
  BY MigrationAssumption DEF Workloads
<1> QED BY <1>1, <1>2 DEF Planned, StateType

\* A state in which each completed phase has recorded what later phases take
\* from it; a state without a plan has completed none.
BackedState(s) ==
  /\ s.n = 0 => \A j \in 1..5 : s.cp[Order[j]] # "completed"
  /\ s.cp["convert"] = "completed" => s.conv = 1..s.n
  /\ s.cp["import"] = "completed" => \A w \in 1..s.n : s.vm[w] # 0

\* The copy s of an operation at place l, which has finished the first d
\* workloads of its i-th phase.
BackedPlace(l, s, i, d) ==
  /\ BackedState(s)
  /\ l \in {"begin", "start", "point", "work", "final"} => s.n = N
  /\ l = "work" /\ i = 2 => 1..d \subseteq s.conv
  /\ l = "work" /\ i = 3 => \A w \in 1..d : s.vm[w] # 0

BackedInv ==
  /\ BackedState(rec)
  /\ \A p \in Procs : BackedPlace(pc[p], st[p], at[p], done[p])

\* The names of the phases by their index.
LEMMA PhaseIndex ==
  ASSUME NEW i \in 1..5
  PROVE  /\ Order[i] = "export" <=> i = 1
         /\ Order[i] = "convert" <=> i = 2
         /\ Order[i] = "import" <=> i = 3
         /\ Order[i] = "configure" <=> i = 4
         /\ Order[i] = "verify" <=> i = 5
BY DEF Order

\* Completing no checkpoint and losing no recorded work keeps a state backed.
LEMMA StaysBacked ==
  ASSUME NEW s \in StateType, NEW t \in StateType, BackedState(s), SameWork(s, t),
         \A q \in Phases : t.cp[q] = "completed" => s.cp[q] = "completed"
  PROVE  BackedState(t)
BY OrderFacts DEF BackedState, SameWork, Phases

\* A state becomes backed by a plan: without one it has completed no phase.
LEMMA PlanBacked ==
  ASSUME NEW s \in StateType, s.n = 0, BackedState(s),
         source \in [Workloads -> Power]
  PROVE  BackedState(Planned(s, N))
<1>1. /\ Planned(s, N).cp = s.cp /\ Planned(s, N).n = N
  BY PlannedFacts, PlannedWork
<1>2. s.cp["convert"] # "completed" /\ s.cp["import"] # "completed"
  BY DEF BackedState, Order
<1> QED BY <1>1, <1>2, MigrationAssumption DEF BackedState

\* Only operation p takes a step, and what it stores, if anything, is its copy.
StepAlone(p) == StepOf(p) /\ \A q \in Procs \ {p} : done'[q] = done[q]

\* The other operations stay backed when one takes such a step.
LEMMA BackedOfOne ==
  ASSUME BackedInv, NEW p \in Procs, StepAlone(p),
         BackedPlace(pc'[p], st'[p], at'[p], done'[p])
  PROVE  BackedInv'
<1>1. BackedState(rec')
  BY DEF BackedInv, BackedPlace, StepAlone, StepOf
<1>2. ASSUME NEW q \in Procs PROVE BackedPlace(pc'[q], st'[q], at'[q], done'[q])
  <2>1. CASE q = p
    BY <2>1
  <2>2. CASE q # p
    <3>1. pc'[q] = pc[q] /\ st'[q] = st[q] /\ at'[q] = at[q] /\ done'[q] = done[q]
      BY <2>2 DEF StepAlone, StepOf
    <3>2. BackedPlace(pc[q], st[q], at[q], done[q])
      BY DEF BackedInv
    <3> QED BY <3>1, <3>2
  <2> QED BY <2>1, <2>2
<1>3. BackedInv' <=> /\ BackedState(rec')
                     /\ \A q \in Procs : BackedPlace(pc'[q], st'[q], at'[q], done'[q])
  BY DEF BackedInv, BackedPlace, BackedState
<1> QED BY <1>1, <1>2, <1>3

\* Every step of every operation preserves the invariant.
LEMMA BackedStep ==
  ASSUME ~MayMatchNothing, MTypeOK, CheckpointInv, BackedInv, [MNext]_mvars
  PROVE  BackedInv'
<1> USE DEF stored, world
<1>0. CASE UNCHANGED mvars
  BY <1>0 DEF mvars, procs, BackedInv, BackedPlace, BackedState
<1>t. Matches = {N} /\ N \in Nat \ {0}
  BY MigrationAssumption DEF Matches
<1>s. ASSUME NEW p \in Procs
      PROVE  /\ BackedPlace(pc[p], st[p], at[p], done[p]) /\ st[p] \in StateType
             /\ at[p] \in 1..5 /\ done[p] \in 0..N /\ st[p].n \in {0, N}
             /\ PlaceInv(pc[p], op[p], st[p], at[p])
             /\ st[p].phase \in PhaseNames /\ st[p].conv \subseteq Workloads
             /\ source \in [Workloads -> Power]
  BY DEF BackedInv, MTypeOK, StateType, PhaseNames, CheckpointInv
<1>1. ASSUME NEW p \in Procs, StartExecute(p) PROVE BackedInv'
  <2>1. BackedPlace("discover", NewState, at[p], done[p])
    BY OrderFacts DEF BackedPlace, BackedState, NewState, Phases
  <2>2. /\ pc'[p] = "discover" /\ st'[p] = NewState /\ at'[p] = at[p] /\ done'[p] = done[p]
        /\ StepAlone(p)
    BY <1>1 DEF MTypeOK, StepAlone, StepOf, StartExecute, Begin, Keep, Goto
  <2> QED BY <2>1, <2>2, BackedOfOne
<1>2. ASSUME NEW p \in Procs, StartResume(p) PROVE BackedInv'
  <2>1. BackedPlace("discover", rec, at[p], done[p])
    BY DEF BackedInv, BackedPlace
  <2>2. /\ pc'[p] = "discover" /\ st'[p] = rec /\ at'[p] = at[p] /\ done'[p] = done[p]
        /\ StepAlone(p)
    BY <1>2 DEF MTypeOK, StepAlone, StepOf, StartResume, Begin, Keep, Goto
  <2> QED BY <2>1, <2>2, BackedOfOne
<1>3. ASSUME NEW p \in Procs, StartRollback(p) \/ Abandon(p)
                              \/ RollbackRemoves(p) \/ RollbackCleans(p) \/ RollbackRestores(p)
      PROVE  BackedInv'
  <2>1. PICK l \in {"load", "idle", "clean", "restore", "save"} :
          Goto(p, l) /\ UNCHANGED <<rec, st, at, done>> /\ \A q \in Procs \ {p} : op'[q] = op[q]
    BY <1>3 DEF StartRollback, Begin, Abandon, RollbackRemoves, RollbackCleans, RollbackRestores,
                MTypeOK
  <2>2. BackedPlace(l, st[p], at[p], done[p])
    BY <1>s DEF BackedPlace
  <2>3. /\ pc'[p] = l /\ st'[p] = st[p] /\ at'[p] = at[p] /\ done'[p] = done[p]
        /\ StepAlone(p)
    BY <2>1 DEF MTypeOK, StepAlone, StepOf, Goto
  <2> QED BY <2>2, <2>3, BackedOfOne
<1>4. ASSUME NEW p \in Procs, DiscoverFails(p) \/ TakePointFails(p) PROVE BackedInv'
  <2>1. PICK ph \in PhaseNames : Fail(p, ph) /\ UNCHANGED <<op, at, done>>
    BY <1>4, <1>s, OrderFacts DEF DiscoverFails, TakePointFails, PhaseNames, Phases
  <2>2. BackedState(Failed(st[p], ph))
    <3>1. \A q \in Phases : Failed(st[p], ph).cp[q] = "completed" => st[p].cp[q] = "completed"
      BY <1>s, FailedFacts
    <3> QED BY <1>s, <3>1, FailedFacts, FailedWork, StaysBacked DEF BackedPlace
  <2>3. BackedPlace("idle", Failed(st[p], ph), at[p], done[p])
    BY <2>2 DEF BackedPlace
  <2>4. /\ pc'[p] = "idle" /\ st'[p] = Failed(st[p], ph) /\ at'[p] = at[p] /\ done'[p] = done[p]
        /\ StepAlone(p)
    BY <2>1 DEF MTypeOK, StepAlone, StepOf, Fail, Persist, Keep, Goto
  <2> QED BY <2>3, <2>4, BackedOfOne
<1>5. ASSUME NEW p \in Procs, ExecutePlans(p) PROVE BackedInv'
  <2> DEFINE t == Mark(Planned(st[p], N), "plan", "completed")
  <2>1. PICK l \in {"idle", "begin"} : Persist(p, t, l) /\ UNCHANGED <<op, at, done>>
    BY <1>5, <1>t DEF ExecutePlans
  <2>2. AllPending(st[p])
    BY <1>5, <1>s DEF ExecutePlans, PlaceInv
  <2>3. /\ Planned(st[p], N) \in StateType /\ Planned(st[p], N).n = N
        /\ Planned(st[p], N).cp = st[p].cp
    BY <1>s, PlannedFacts, PlannedWork
  <2>4. t \in StateType /\ t.n = N /\ \A q \in Phases : q # "plan" => t.cp[q] = st[p].cp[q]
    <3>1. "plan" \in Phases /\ "completed" \in Status
      BY DEF Phases, Status
    <3> QED BY <2>3, <3>1, MarkFacts, MarkWork DEF SameWork
  <2> HIDE DEF t
  <2>5. BackedPlace(l, t, at[p], done[p])
    BY <2>2, <2>4, <1>t, OrderFacts DEF BackedPlace, BackedState, AllPending, Order, Phases
  <2>6. /\ pc'[p] = l /\ st'[p] = t /\ at'[p] = at[p] /\ done'[p] = done[p]
        /\ StepAlone(p)
    BY <2>1 DEF MTypeOK, StepAlone, StepOf, Persist, Keep, Goto
  <2> QED BY <2>5, <2>6, BackedOfOne
<1>6. ASSUME NEW p \in Procs, ResumeContinues(p) PROVE BackedInv'
  <2> DEFINE s == IF st[p].n = 0 THEN Planned(st[p], N)
                  ELSE [st[p] EXCEPT !.planned = TRUE]
  <2>1. /\ UNCHANGED <<op, done>>
        /\ \/ Persist(p, s, "idle") /\ UNCHANGED at
           \/ Persist(p, [s EXCEPT !.phase = "complete"], "idle") /\ UNCHANGED at
           \/ /\ Keep(p, s) /\ Goto(p, "start") /\ UNCHANGED rec
              /\ at' = [at EXCEPT ![p] = NextPhase(s)]
    BY <1>6, <1>t DEF ResumeContinues
  <2>2. s \in StateType /\ BackedState(s) /\ s.n = N
    <3>1. CASE st[p].n = 0
      BY <3>1, <1>s, PlanBacked, PlannedFacts, PlannedWork DEF BackedPlace
    <3>2. CASE st[p].n # 0
      <4> DEFINE u == [st[p] EXCEPT !.planned = TRUE]
      <4>1. u \in StateType /\ SameWork(st[p], u) /\ u.cp = st[p].cp
        BY <1>s DEF StateType, SameWork
      <4> HIDE DEF u
      <4>2. BackedState(u) /\ u.n = N
        BY <1>s, <3>2, <4>1, StaysBacked DEF BackedPlace, SameWork
      <4> QED BY <3>2, <4>1, <4>2 DEF u
    <3> QED BY <3>1, <3>2
  <2> HIDE DEF s
  <2>3. BackedState([s EXCEPT !.phase = "complete"])
    BY <2>2, PhaseFacts, PhaseWork, StaysBacked DEF PhaseNames
  <2>4. CASE Persist(p, s, "idle") /\ UNCHANGED at
    <3>1. BackedPlace("idle", s, at[p], done[p])
      BY <2>2 DEF BackedPlace
    <3>2. /\ pc'[p] = "idle" /\ st'[p] = s /\ at'[p] = at[p] /\ done'[p] = done[p]
          /\ StepAlone(p)
      BY <2>1, <2>4 DEF MTypeOK, StepAlone, StepOf, Persist, Keep, Goto
    <3> QED BY <3>1, <3>2, BackedOfOne
  <2>5. CASE Persist(p, [s EXCEPT !.phase = "complete"], "idle") /\ UNCHANGED at
    <3>1. BackedPlace("idle", [s EXCEPT !.phase = "complete"], at[p], done[p])
      BY <2>3 DEF BackedPlace
    <3>2. /\ pc'[p] = "idle" /\ st'[p] = [s EXCEPT !.phase = "complete"]
          /\ at'[p] = at[p] /\ done'[p] = done[p] /\ StepAlone(p)
      BY <2>1, <2>5 DEF MTypeOK, StepAlone, StepOf, Persist, Keep, Goto
    <3> QED BY <3>1, <3>2, BackedOfOne
  <2>6. CASE /\ Keep(p, s) /\ Goto(p, "start") /\ UNCHANGED rec
             /\ at' = [at EXCEPT ![p] = NextPhase(s)]
    <3>1. BackedPlace("start", s, at'[p], done[p])
      BY <2>2 DEF BackedPlace
    <3>2. /\ pc'[p] = "start" /\ st'[p] = s /\ done'[p] = done[p] /\ StepAlone(p)
      BY <2>1, <2>6 DEF MTypeOK, StepAlone, StepOf, Keep, Goto
    <3> QED BY <3>1, <3>2, BackedOfOne
  <2> QED BY <2>1, <2>4, <2>5, <2>6
<1>7. ASSUME NEW p \in Procs, TakePoint(p) PROVE BackedInv'
  <2>1. BackedPlace(pc'[p], st[p], at'[p], 0)
    BY <1>7, <1>s DEF TakePoint, Goto, BackedPlace, MTypeOK
  <2>2. st'[p] = st[p] /\ done'[p] = 0 /\ StepAlone(p)
    BY <1>7 DEF MTypeOK, StepAlone, StepOf, TakePoint, Goto
  <2> QED BY <2>1, <2>2, BackedOfOne
<1>8. ASSUME NEW p \in Procs, SetPhase(p) PROVE BackedInv'
  <2> DEFINE ph == Order[at[p]]
             t == [st[p] EXCEPT !.phase = ph]
             s == Mark(t, ph, "running")
  <2>1. ph \in Phases /\ ph \in PhaseNames /\ "running" \in Status
    BY <1>s, OrderFacts DEF PhaseNames, Status
  <2>2. t \in StateType /\ SameWork(st[p], t) /\ t.cp = st[p].cp
    BY <1>s, <2>1, PhaseFacts, PhaseWork
  <2> HIDE DEF t
  <2>3. /\ s \in StateType /\ SameWork(t, s)
        /\ \A q \in Phases : s.cp[q] = "completed" => st[p].cp[q] = "completed"
    BY <2>1, <2>2, MarkFacts, MarkWork
  <2>4. Persist(p, s, "point") /\ UNCHANGED <<op, at, done>> /\ pc[p] = "start"
    BY <1>8 DEF SetPhase, t
  <2> HIDE DEF s
  <2>5. BackedState(s) /\ s.n = N
    BY <1>s, <2>2, <2>3, <2>4, StaysBacked DEF BackedPlace, SameWork
  <2>6. BackedPlace("point", s, at[p], done[p])
    BY <2>5 DEF BackedPlace
  <2>7. /\ pc'[p] = "point" /\ st'[p] = s /\ at'[p] = at[p] /\ done'[p] = done[p]
        /\ StepAlone(p)
    BY <2>4 DEF MTypeOK, StepAlone, StepOf, Persist, Keep, Goto
  <2> QED BY <2>6, <2>7, BackedOfOne
<1>9. ASSUME NEW p \in Procs, RunExport(p) \/ RunOnTarget(p) PROVE BackedInv'
  <2>1. /\ at[p] \notin {2, 3} /\ UNCHANGED <<rec, pc, op, st, at>> /\ Handled(p)
    BY <1>9, <1>s, PhaseIndex DEF RunExport, RunOnTarget, Working
  <2>2. BackedPlace(pc[p], st[p], at[p], done'[p])
    BY <2>1, <1>s DEF BackedPlace
  <2>3. StepAlone(p)
    BY <2>1 DEF MTypeOK, StepAlone, StepOf, Handled
  <2> QED BY <2>1, <2>2, <2>3, BackedOfOne
<1>10. ASSUME NEW p \in Procs, RunConvert(p) PROVE BackedInv'
  <2> DEFINE w == done[p] + 1
             s == [st[p] EXCEPT !.conv = @ \cup {w}]
  <2>1. /\ at[p] = 2 /\ pc[p] = "work" /\ w \in Workloads
        /\ UNCHANGED <<rec, pc, op, at>> /\ Keep(p, s) /\ done' = [done EXCEPT ![p] = w]
    BY <1>10, <1>s, PhaseIndex, WorkingFacts DEF RunConvert, Working, Handled
  <2>2. /\ s.cp = st[p].cp /\ s.n = st[p].n /\ s.vm = st[p].vm
        /\ s.conv = st[p].conv \cup {w}
    BY <1>s DEF StateType
  <2> HIDE DEF s
  <2>3. BackedState(s)
    BY <1>s, <2>1, <2>2 DEF BackedState, BackedPlace, Workloads
  <2>4. 1..w \subseteq s.conv
    <3>1. 1..done[p] \subseteq st[p].conv
      BY <1>s, <2>1 DEF BackedPlace
    <3> QED BY <1>s, <2>2, <3>1
  <2>5. BackedPlace("work", s, 2, w)
    BY <1>s, <2>1, <2>2, <2>3, <2>4 DEF BackedPlace
  <2>6. /\ pc'[p] = "work" /\ st'[p] = s /\ at'[p] = 2 /\ done'[p] = w
        /\ StepAlone(p)
    BY <2>1 DEF MTypeOK, StepAlone, StepOf, Keep
  <2> QED BY <2>5, <2>6, BackedOfOne
<1>11. ASSUME NEW p \in Procs, RunImport(p) PROVE BackedInv'
  <2> DEFINE w == done[p] + 1
             s == [st[p] EXCEPT !.vm[w] = created + 1]
  <2>1. /\ at[p] = 3 /\ pc[p] = "work" /\ w \in Workloads
        /\ UNCHANGED <<rec, pc, op, at>> /\ Keep(p, s) /\ done' = [done EXCEPT ![p] = w]
    BY <1>11, <1>s, PhaseIndex, WorkingFacts DEF RunImport, Working, Handled
  <2>2. /\ s.cp = st[p].cp /\ s.n = st[p].n /\ s.conv = st[p].conv
        /\ s.vm[w] = created + 1 /\ created \in Nat
        /\ \A v \in Workloads : v # w => s.vm[v] = st[p].vm[v]
    BY <1>s, <2>1 DEF StateType, MTypeOK
  <2> HIDE DEF s
  <2>3. BackedState(s)
    BY <1>s, <1>t, <2>1, <2>2 DEF BackedState, BackedPlace, Workloads
  <2>4. \A v \in 1..w : s.vm[v] # 0
    <3>1. \A v \in 1..done[p] : st[p].vm[v] # 0
      BY <1>s, <2>1 DEF BackedPlace
    <3> QED BY <1>s, <1>t, <2>1, <2>2, <3>1 DEF Workloads
  <2>5. BackedPlace("work", s, 3, w)
    BY <1>s, <2>1, <2>2, <2>3, <2>4 DEF BackedPlace
  <2>6. /\ pc'[p] = "work" /\ st'[p] = s /\ at'[p] = 3 /\ done'[p] = w
        /\ StepAlone(p)
    BY <2>1 DEF MTypeOK, StepAlone, StepOf, Keep
  <2> QED BY <2>5, <2>6, BackedOfOne
<1>12. ASSUME NEW p \in Procs, PhaseFails(p) PROVE BackedInv'
  <2> DEFINE ph == Order[at[p]]
             u == [st[p] EXCEPT !.conv = @ \ {done[p] + 1}]
             s == IF ph = "convert" THEN u ELSE st[p]
  <2>1. Persist(p, Failed(s, ph), "idle") /\ UNCHANGED <<op, at, done>>
    BY <1>12 DEF PhaseFails
  <2>2. ph \in Phases /\ ph \in PhaseNames
    BY <1>s, OrderFacts DEF PhaseNames
  <2>3. /\ s \in StateType /\ s.cp = st[p].cp /\ s.n = st[p].n /\ s.vm = st[p].vm
        /\ ph # "convert" => s = st[p]
    <3>1. u \in StateType /\ u.cp = st[p].cp /\ u.n = st[p].n /\ u.vm = st[p].vm
      BY <1>s DEF StateType
    <3> QED BY <3>1, <1>s
  <2> HIDE DEF s
  <2> DEFINE t == Failed(s, ph)
  <2>4. /\ SameWork(s, t) /\ t.cp[ph] = "failed"
        /\ \A q \in Phases : q # ph => t.cp[q] = s.cp[q]
    BY <2>2, <2>3, FailedFacts, FailedWork
  <2> HIDE DEF t
  <2>5. BackedState(t)
    <3>1. CASE ph = "convert"
      BY <1>s, <2>2, <2>3, <2>4, <3>1, OrderFacts DEF BackedPlace, BackedState, SameWork, Phases
    <3>2. CASE ph # "convert"
      BY <1>s, <2>2, <2>3, <2>4, <3>2, OrderFacts DEF BackedPlace, BackedState, SameWork, Phases
    <3> QED BY <3>1, <3>2
  <2>6. BackedPlace("idle", t, at[p], done[p])
    BY <2>5 DEF BackedPlace
  <2>7. /\ pc'[p] = "idle" /\ st'[p] = t /\ at'[p] = at[p] /\ done'[p] = done[p]
        /\ StepAlone(p)
    BY <2>1 DEF MTypeOK, StepAlone, StepOf, Persist, Keep, Goto, t
  <2> QED BY <2>6, <2>7, BackedOfOne
<1>13. ASSUME NEW p \in Procs, PhaseEnds(p) PROVE BackedInv'
  <2> DEFINE ph == Order[at[p]]
             s == Mark(st[p], ph, "completed")
             l == IF at[p] = 5 THEN "final" ELSE "start"
  <2>1. /\ Persist(p, s, l) /\ UNCHANGED <<op, done>> /\ pc[p] = "work"
        /\ at' = [at EXCEPT ![p] = IF @ = 5 THEN 5 ELSE @ + 1]
        /\ at[p] \in {2, 3} => done[p] = st[p].n
    BY <1>13, <1>s, PhaseIndex DEF PhaseEnds
  <2>2. /\ s \in StateType /\ SameWork(st[p], s) /\ ph \in Phases
        /\ \A q \in Phases : q # ph => s.cp[q] = st[p].cp[q]
    <3>1. ph \in Phases /\ "completed" \in Status /\ st[p] \in StateType
      BY <1>s, OrderFacts DEF Status
    <3> QED BY <3>1, MarkFacts, MarkWork
  <2> HIDE DEF s, l
  <2>3. st[p].n = N /\ s.n = N
    BY <1>s, <2>1, <2>2 DEF BackedPlace, SameWork
  <2>4. s.cp["convert"] = "completed" => s.conv = 1..N
    <3>1. CASE at[p] = 2
      <4>1. 1..N \subseteq st[p].conv
        BY <1>s, <2>1, <2>3, <3>1 DEF BackedPlace
      <4> QED BY <1>s, <2>2, <4>1 DEF SameWork, Workloads
    <3>2. CASE at[p] # 2
      BY <1>s, <2>2, <2>3, <3>2, PhaseIndex DEF BackedPlace, BackedState, SameWork, Phases
    <3> QED BY <3>1, <3>2
  <2>5. s.cp["import"] = "completed" => \A w \in 1..N : s.vm[w] # 0
    <3>1. CASE at[p] = 3
      BY <1>s, <2>1, <2>2, <2>3, <3>1 DEF BackedPlace, SameWork
    <3>2. CASE at[p] # 3
      BY <1>s, <2>2, <2>3, <3>2, PhaseIndex DEF BackedPlace, BackedState, SameWork, Phases
    <3> QED BY <3>1, <3>2
  <2>6. BackedPlace(l, s, at'[p], done[p])
    BY <1>t, <2>3, <2>4, <2>5 DEF BackedPlace, BackedState, l
  <2>7. pc'[p] = l /\ st'[p] = s /\ done'[p] = done[p] /\ StepAlone(p)
    BY <2>1 DEF MTypeOK, StepAlone, StepOf, Persist, Keep, Goto
  <2> QED BY <2>6, <2>7, BackedOfOne
<1>14. ASSUME NEW p \in Procs, Completes(p) \/ RollbackSaves(p) PROVE BackedInv'
  <2>1. PICK ph \in PhaseNames : Persist(p, [st[p] EXCEPT !.phase = ph], "idle")
                                 /\ UNCHANGED <<op, at, done>>
    BY <1>14 DEF Completes, RollbackSaves, PhaseNames
  <2> DEFINE s == [st[p] EXCEPT !.phase = ph]
  <2>2. BackedState(s)
    <3>1. s \in StateType /\ SameWork(st[p], s) /\ s.cp = st[p].cp
      BY <1>s, PhaseFacts, PhaseWork
    <3> HIDE DEF s
    <3> QED BY <1>s, <3>1, StaysBacked DEF BackedPlace
  <2> HIDE DEF s
  <2>3. BackedPlace("idle", s, at[p], done[p])
    BY <2>2 DEF BackedPlace
  <2>4. /\ pc'[p] = "idle" /\ st'[p] = s /\ at'[p] = at[p] /\ done'[p] = done[p]
        /\ StepAlone(p)
    BY <2>1 DEF MTypeOK, StepAlone, StepOf, Persist, Keep, Goto, s
  <2> QED BY <2>3, <2>4, BackedOfOne
<1>15. ASSUME NEW p \in Procs, RollbackLoads(p) PROVE BackedInv'
  <2>1. BackedPlace("remove", rec, at[p], done[p])
    BY DEF BackedInv, BackedPlace
  <2>2. /\ pc'[p] = "remove" /\ st'[p] = rec /\ at'[p] = at[p] /\ done'[p] = done[p]
        /\ StepAlone(p)
    BY <1>15 DEF MTypeOK, StepAlone, StepOf, RollbackLoads, Keep, Goto
  <2> QED BY <2>1, <2>2, BackedOfOne
<1> QED BY <1>0, <1>1, <1>2, <1>3, <1>4, <1>5, <1>6, <1>7, <1>8, <1>9, <1>10,
           <1>11, <1>12, <1>13, <1>14, <1>15
        DEF MNext, RunPhase, RunWorkload, RollbackStep

\* Nothing is completed at the start.
LEMMA BackedInit == MInit => BackedInv
BY OrderFacts DEF MInit, BackedInv, BackedPlace, BackedState, NewState, NotStored, Phases

\* However executions, resumptions and rollbacks of a migration overlap, fail
\* or die, a conversion or an import that its record shows as completed has
\* recorded a disk or a VM for each workload, which is what a resumption that
\* skips the phase takes from it.  The spec must select its workloads whenever
\* it is resolved: a resumption that selects none completes phases over nothing.
THEOREM CheckpointsBacked ==
  ASSUME ~MayMatchNothing
  PROVE  MSpec => []CheckpointsAreBacked
<1>1. BackedInv => CheckpointsAreBacked
  BY DEF BackedInv, BackedState, CheckpointsAreBacked
<1>2. MTypeOK /\ CheckpointInv /\ BackedInv /\ [MNext]_mvars => BackedInv'
  BY BackedStep
<1>3. MTypeOK /\ CheckpointInv /\ [MNext]_mvars => CheckpointInv'
  BY CheckpointStep
<1> QED BY <1>1, <1>2, <1>3, BackedInit, CheckpointInit, TypeCorrect, PTL DEF MSpec

-----------------------------------------------------------------------------
\* What a completed migration has done to the platforms.

\* What state s records is true of the target VMs and the source power: the
\* VMs it names exist, a source it planned as off is off, and a completed
\* export has switched the sources off where the spec asks for it.
TrueOf(s, vms, power) ==
  /\ \A w \in Workloads : s.vm[w] \in vms \cup {0}
  /\ s.n = N => \A w \in Workloads : s.power[w] = "off" => power[w] = "off"
  /\ ShutdownSource /\ s.cp["export"] = "completed" =>
       \A w \in Workloads : power[w] = "off"

\* The same of the copy of an operation at place l that has finished the first
\* d workloads of its i-th phase; no operation is rolling back.
TruePlace(l, s, i, d, vms, power) ==
  /\ TrueOf(s, vms, power)
  /\ l \notin {"load", "remove", "clean", "restore", "save"}
  /\ ShutdownSource /\ l = "work" /\ i = 1 => \A w \in 1..d : power[w] = "off"

MigratedInv ==
  started["rollback"] = 0 =>
    /\ TrueOf(rec, target, source)
    /\ \A p \in Procs : TruePlace(pc[p], st[p], at[p], done[p], target, source)

\* Until a rollback the target gains VMs only and no source is switched on.
Onward == target \subseteq target' /\ \A w \in Workloads : source[w] = "off" => source'[w] = "off"

\* What is true of a state stays true meanwhile.
LEMMA TrueOnward ==
  ASSUME NEW s, TrueOf(s, target, source), Onward
  PROVE  TrueOf(s, target', source')
BY DEF TrueOf, Onward

\* A state stays true when its phase and later checkpoints are written.
LEMMA StaysTrue ==
  ASSUME NEW s, NEW t, NEW vms, NEW power, TrueOf(s, vms, power),
         t.n = s.n, t.vm = s.vm, t.power = s.power,
         t.cp["export"] = "completed" => s.cp["export"] = "completed"
  PROVE  TrueOf(t, vms, power)
BY DEF TrueOf

\* An operation that takes a step keeps the invariant of the others.
LEMMA TrueOfOne ==
  ASSUME MTypeOK, MigratedInv, NEW p \in Procs, StepAlone(p), Onward,
         started'["rollback"] = started["rollback"],
         started["rollback"] = 0 => TruePlace(pc'[p], st'[p], at'[p], done'[p], target', source')
  PROVE  MigratedInv'
<1> SUFFICES ASSUME started["rollback"] = 0
             PROVE  /\ TrueOf(rec', target', source')
                    /\ \A q \in Procs :
                         TruePlace(pc'[q], st'[q], at'[q], done'[q], target', source')
  BY DEF MigratedInv, TruePlace, TrueOf
<1>1. TrueOf(rec', target', source')
  <2>1. TrueOf(rec, target', source')
    BY TrueOnward DEF MigratedInv
  <2> QED BY <2>1 DEF StepAlone, StepOf, TruePlace
<1>2. ASSUME NEW q \in Procs
      PROVE  TruePlace(pc'[q], st'[q], at'[q], done'[q], target', source')
  <2>1. CASE q = p
    BY <2>1
  <2>2. CASE q # p
    <3>1. pc'[q] = pc[q] /\ st'[q] = st[q] /\ at'[q] = at[q] /\ done'[q] = done[q]
      BY <2>2 DEF StepAlone, StepOf
    <3>2. TruePlace(pc[q], st[q], at[q], done[q], target, source)
      BY DEF MigratedInv
    <3>3. TrueOf(st[q], target', source')
      BY <3>2, TrueOnward DEF TruePlace
    <3>4. 1..done[q] \subseteq Workloads
      BY MigrationAssumption DEF MTypeOK, Workloads
    <3> QED BY <3>1, <3>2, <3>3, <3>4 DEF TruePlace, Onward
  <2> QED BY <2>1, <2>2
<1> QED BY <1>1, <1>2

\* An operation that leaves the platforms alone and ends or changes place.
LEMMA TrueQuiet ==
  ASSUME MTypeOK, MigratedInv, NEW p \in Procs, StepAlone(p), UNCHANGED <<target, source, started>>,
         NEW s, started["rollback"] = 0 => TrueOf(s, target, source), st'[p] = s,
         pc'[p] \in {"idle", "discover", "begin", "start", "point", "final"}
  PROVE  MigratedInv'
<1>1. Onward
  BY DEF Onward
<1>2. started["rollback"] = 0 => TruePlace(pc'[p], st'[p], at'[p], done'[p], target', source')
  BY DEF TruePlace
<1> QED BY <1>1, <1>2, TrueOfOne

\* Every step that is not of a rollback keeps what states record true.
LEMMA MigratedStep ==
  ASSUME ~MayMatchNothing, MTypeOK, CheckpointInv, BackedInv, MigratedInv, [MNext]_mvars
  PROVE  MigratedInv'
<1> USE DEF stored, world
<1>0. CASE UNCHANGED mvars
  BY <1>0 DEF mvars, procs, MigratedInv, TruePlace, TrueOf
<1>t. Matches = {N} /\ N \in Nat \ {0}
  BY MigrationAssumption DEF Matches
<1>s. ASSUME NEW p \in Procs
      PROVE  /\ st[p] \in StateType /\ st[p].phase \in PhaseNames
             /\ st[p].n \in {0, N} /\ st[p].vm \in [Workloads -> Nat]
             /\ st[p].power \in [Workloads -> Power]
             /\ at[p] \in 1..5 /\ done[p] \in 0..N
             /\ pc[p] = "work" => st[p].n = N
             /\ started["rollback"] = 0 =>
                  TruePlace(pc[p], st[p], at[p], done[p], target, source)
             /\ source \in [Workloads -> Power]
  BY DEF MigratedInv, BackedInv, BackedPlace, MTypeOK, StateType, PhaseNames
<1>1. ASSUME NEW p \in Procs, StartExecute(p) PROVE MigratedInv'
  <2>1. /\ pc'[p] = "discover" /\ st'[p] = NewState /\ StepAlone(p)
        /\ started'["rollback"] = started["rollback"] /\ UNCHANGED <<target, source>>
    BY <1>1 DEF MTypeOK, StepAlone, StepOf, StartExecute, Begin, Keep, Goto
  <2>2. TrueOf(NewState, target, source)
    BY <1>t DEF TrueOf, NewState, Phases
  <2>3. Onward /\ TruePlace(pc'[p], st'[p], at'[p], done'[p], target', source')
    BY <2>1, <2>2 DEF Onward, TruePlace
  <2> QED BY <2>1, <2>3, TrueOfOne
<1>2. ASSUME NEW p \in Procs, StartResume(p) PROVE MigratedInv'
  <2>1. /\ pc'[p] = "discover" /\ st'[p] = rec /\ StepAlone(p)
        /\ started'["rollback"] = started["rollback"] /\ UNCHANGED <<target, source>>
    BY <1>2 DEF MTypeOK, StepAlone, StepOf, StartResume, Begin, Keep, Goto
  <2>2. /\ Onward
        /\ started["rollback"] = 0 =>
             TruePlace(pc'[p], st'[p], at'[p], done'[p], target', source')
    BY <2>1 DEF Onward, TruePlace, MigratedInv
  <2> QED BY <2>1, <2>2, TrueOfOne
<1>3. ASSUME NEW p \in Procs, StartRollback(p) PROVE MigratedInv'
  <2>1. started'["rollback"] # 0
    BY <1>3 DEF StartRollback, Begin, MTypeOK
  <2> QED BY <2>1 DEF MigratedInv
<1>4. ASSUME NEW p \in Procs, DiscoverFails(p) \/ TakePointFails(p) PROVE MigratedInv'
  <2>1. PICK ph \in PhaseNames : Fail(p, ph) /\ UNCHANGED <<op, at, done, target, source, started>>
    BY <1>4, <1>s, OrderFacts DEF DiscoverFails, TakePointFails, PhaseNames, Phases
  <2> DEFINE s == Failed(st[p], ph)
  <2>2. /\ SameWork(st[p], s)
        /\ s.cp["export"] = "completed" => st[p].cp["export"] = "completed"
    BY <1>s, FailedFacts, FailedWork DEF Phases
  <2>3. StepAlone(p) /\ st'[p] = s /\ pc'[p] = "idle"
    BY <2>1 DEF MTypeOK, StepAlone, StepOf, Fail, Persist, Keep, Goto
  <2> HIDE DEF s
  <2>4. started["rollback"] = 0 => TrueOf(s, target, source)
    BY <1>s, <2>2, StaysTrue DEF TruePlace, SameWork
  <2> QED BY <2>1, <2>3, <2>4, TrueQuiet
<1>5. ASSUME NEW p \in Procs, ExecutePlans(p) PROVE MigratedInv'
  <2> DEFINE u == Planned(st[p], N)
             s == Mark(u, "plan", "completed")
  <2>1. PICK l \in {"idle", "begin"} : Persist(p, s, l)
                                       /\ UNCHANGED <<op, at, done, target, source, started>>
    BY <1>5, <1>t DEF ExecutePlans
  <2>2. u \in StateType /\ u.cp = st[p].cp /\ u.vm = st[p].vm /\ u.power = source
    BY <1>s, PlannedFacts, PlannedWork
  <2> HIDE DEF u
  <2>3. SameWork(u, s) /\ s.cp["export"] = u.cp["export"]
    <3>1. {"plan", "export"} \subseteq Phases /\ "completed" \in Status
      BY DEF Phases, Status
    <3> QED BY <2>2, <3>1, MarkFacts, MarkWork
  <2>4. StepAlone(p) /\ st'[p] = s /\ pc'[p] = l
    BY <2>1 DEF MTypeOK, StepAlone, StepOf, Persist, Keep, Goto
  <2> HIDE DEF s
  <2>5. started["rollback"] = 0 => TrueOf(s, target, source)
    BY <1>s, <2>2, <2>3 DEF TruePlace, TrueOf, SameWork
  <2> QED BY <2>1, <2>4, <2>5, TrueQuiet
<1>6. ASSUME NEW p \in Procs, ResumeContinues(p) PROVE MigratedInv'
  <2> DEFINE s == IF st[p].n = 0 THEN Planned(st[p], N)
                  ELSE [st[p] EXCEPT !.planned = TRUE]
             t == [s EXCEPT !.phase = "complete"]
  <2>1. /\ UNCHANGED <<op, done, target, source, started>>
        /\ \/ Persist(p, s, "idle") /\ UNCHANGED at
           \/ Persist(p, t, "idle") /\ UNCHANGED at
           \/ /\ Keep(p, s) /\ Goto(p, "start") /\ UNCHANGED rec
              /\ at' = [at EXCEPT ![p] = NextPhase(s)]
    BY <1>6, <1>t DEF ResumeContinues
  <2>2. /\ s \in StateType /\ s.cp = st[p].cp /\ s.vm = st[p].vm
        /\ s.power = source \/ (s.n = st[p].n /\ s.power = st[p].power)
    <3>1. CASE st[p].n = 0
      BY <3>1, <1>s, PlannedFacts, PlannedWork
    <3>2. CASE st[p].n # 0
      BY <3>2, <1>s DEF StateType
    <3> QED BY <3>1, <3>2
  <2> HIDE DEF s
  <2>3. SameWork(s, t) /\ t.cp = s.cp
    BY <2>2, PhaseFacts, PhaseWork DEF PhaseNames
  <2> HIDE DEF t
  <2>4. started["rollback"] = 0 => TrueOf(s, target, source)
    BY <1>s, <2>2 DEF TruePlace, TrueOf
  <2>5. started["rollback"] = 0 => TrueOf(t, target, source)
    BY <2>3, <2>4, StaysTrue DEF SameWork
  <2>6. StepAlone(p) /\ st'[p] \in {s, t} /\ pc'[p] \in {"idle", "start"}
    BY <2>1 DEF MTypeOK, StepAlone, StepOf, Persist, Keep, Goto
  <2> QED BY <2>1, <2>4, <2>5, <2>6, TrueQuiet
<1>7. ASSUME NEW p \in Procs, TakePoint(p) PROVE MigratedInv'
  <2>1. /\ StepAlone(p) /\ st'[p] = st[p] /\ done'[p] = 0 /\ pc'[p] \in {"start", "work"}
        /\ UNCHANGED <<target, source, started>>
    BY <1>7 DEF MTypeOK, StepAlone, StepOf, TakePoint, Goto
  <2>2. /\ Onward
        /\ started["rollback"] = 0 =>
             TruePlace(pc'[p], st'[p], at'[p], done'[p], target', source')
    BY <1>s, <2>1 DEF Onward, TruePlace
  <2> QED BY <2>1, <2>2, TrueOfOne
<1>8. ASSUME NEW p \in Procs, SetPhase(p) PROVE MigratedInv'
  <2> DEFINE ph == Order[at[p]]
             u == [st[p] EXCEPT !.phase = ph]
             s == Mark(u, ph, "running")
  <2>1. {ph, "export"} \subseteq Phases /\ ph \in PhaseNames /\ "running" \in Status
    BY <1>s, OrderFacts DEF PhaseNames, Phases, Status
  <2>2. u \in StateType /\ SameWork(st[p], u) /\ u.cp = st[p].cp
    BY <1>s, <2>1, PhaseFacts, PhaseWork
  <2>3. Persist(p, s, "point") /\ UNCHANGED <<op, at, done, target, source, started>>
    BY <1>8 DEF SetPhase
  <2> HIDE DEF u
  <2>4. /\ SameWork(u, s)
        /\ s.cp["export"] = "completed" => st[p].cp["export"] = "completed"
    BY <2>1, <2>2, MarkFacts, MarkWork
  <2>5. StepAlone(p) /\ st'[p] = s /\ pc'[p] = "point"
    BY <2>3 DEF MTypeOK, StepAlone, StepOf, Persist, Keep, Goto
  <2> HIDE DEF s
  <2>6. started["rollback"] = 0 => TrueOf(s, target, source)
    BY <1>s, <2>2, <2>4, StaysTrue DEF TruePlace, SameWork
  <2> QED BY <2>3, <2>5, <2>6, TrueQuiet
<1>9. ASSUME NEW p \in Procs, RunExport(p) PROVE MigratedInv'
  <2> DEFINE w == done[p] + 1
  <2>1. /\ pc[p] = "work" /\ at[p] = 1 /\ w \in Workloads
        /\ source' = (IF PowersOff(p, w) THEN [source EXCEPT ![w] = "off"] ELSE source)
        /\ done' = [done EXCEPT ![p] = w] /\ UNCHANGED <<rec, pc, op, st, at, target, started>>
    BY <1>9, <1>s, PhaseIndex, WorkingFacts DEF RunExport, Working, Handled
  <2>2. StepAlone(p) /\ st'[p] = st[p] /\ done'[p] = w /\ at'[p] = 1
    BY <2>1 DEF MTypeOK, StepAlone, StepOf
  <2>3. Onward
    BY <1>s, <2>1 DEF Onward
  <2>4. ASSUME started["rollback"] = 0, ShutdownSource
        PROVE  \A v \in 1..w : source'[v] = "off"
    <3>1. source'[w] = "off"
      <4>1. CASE st[p].power[w] = "on"
        BY <1>s, <2>1, <2>4, <4>1 DEF PowersOff
      <4>2. CASE st[p].power[w] = "off"
        <5>1. source[w] = "off"
          BY <1>s, <2>1, <2>4, <4>2 DEF TruePlace, TrueOf
        <5> QED BY <5>1, <2>1, <2>3 DEF Onward
      <4> QED BY <1>s, <2>1, <4>1, <4>2 DEF Power
    <3>2. \A v \in 1..done[p] : source[v] = "off"
      BY <1>s, <2>1, <2>4 DEF TruePlace
    <3>3. 1..w \subseteq Workloads /\ 1..w = (1..done[p]) \cup {w}
      BY <1>s, <1>t, <2>1 DEF Workloads
    <3> QED BY <2>3, <3>1, <3>2, <3>3 DEF Onward
  <2>5. started["rollback"] = 0 => TrueOf(st[p], target', source')
    BY <1>s, <2>3, TrueOnward DEF TruePlace
  <2>6. started["rollback"] = 0 =>
          TruePlace(pc'[p], st'[p], at'[p], done'[p], target', source')
    BY <2>1, <2>2, <2>4, <2>5 DEF TruePlace
  <2> QED BY <2>1, <2>2, <2>3, <2>6, TrueOfOne
<1>10. ASSUME NEW p \in Procs, RunConvert(p) PROVE MigratedInv'
  <2> DEFINE s == [st[p] EXCEPT !.conv = @ \cup {done[p] + 1}]
  <2>1. /\ pc[p] = "work" /\ at[p] = 2 /\ Keep(p, s) /\ Handled(p)
        /\ UNCHANGED <<rec, pc, op, at, target, source, started>>
    BY <1>10, <1>s, PhaseIndex DEF RunConvert, Working
  <2>2. s.n = st[p].n /\ s.vm = st[p].vm /\ s.power = st[p].power /\ s.cp = st[p].cp
    BY <1>s DEF StateType
  <2> HIDE DEF s
  <2>3. StepAlone(p) /\ st'[p] = s
    BY <2>1 DEF MTypeOK, StepAlone, StepOf, Keep, Handled
  <2>4. started["rollback"] = 0 => TrueOf(s, target, source)
    BY <1>s, <2>2, StaysTrue DEF TruePlace
  <2>5. /\ Onward
        /\ started["rollback"] = 0 =>
             TruePlace(pc'[p], st'[p], at'[p], done'[p], target', source')
    BY <2>1, <2>3, <2>4 DEF Onward, TruePlace
  <2> QED BY <2>1, <2>3, <2>5, TrueOfOne
<1>11. ASSUME NEW p \in Procs, RunImport(p) PROVE MigratedInv'
  <2> DEFINE w == done[p] + 1
             s == [st[p] EXCEPT !.vm[w] = created + 1]
  <2>1. /\ pc[p] = "work" /\ at[p] = 3 /\ w \in Workloads /\ Keep(p, s) /\ Handled(p)
        /\ target' = target \cup {created + 1}
        /\ UNCHANGED <<rec, pc, op, at, source, started>>
    BY <1>11, <1>s, PhaseIndex, WorkingFacts DEF RunImport, Working
  <2>2. /\ s.n = st[p].n /\ s.power = st[p].power /\ s.cp = st[p].cp
        /\ \A v \in Workloads : s.vm[v] \in {st[p].vm[v], created + 1}
    BY <1>s, <2>1 DEF StateType
  <2> HIDE DEF s
  <2>3. StepAlone(p) /\ st'[p] = s
    BY <2>1 DEF MTypeOK, StepAlone, StepOf, Keep, Handled
  <2>4. Onward
    BY <2>1 DEF Onward
  <2>5. started["rollback"] = 0 => TrueOf(s, target', source')
    BY <1>s, <2>1, <2>2 DEF TruePlace, TrueOf
  <2>6. started["rollback"] = 0 =>
          TruePlace(pc'[p], st'[p], at'[p], done'[p], target', source')
    BY <2>1, <2>3, <2>5 DEF TruePlace
  <2> QED BY <2>1, <2>3, <2>4, <2>6, TrueOfOne
<1>12. ASSUME NEW p \in Procs, RunOnTarget(p) PROVE MigratedInv'
  <2>1. /\ pc[p] = "work" /\ at[p] \in {4, 5} /\ Handled(p)
        /\ UNCHANGED <<rec, pc, op, st, at, target, source, started>>
    BY <1>12, <1>s, PhaseIndex DEF RunOnTarget, Working
  <2>2. StepAlone(p)
    BY <2>1 DEF MTypeOK, StepAlone, StepOf, Handled
  <2>3. /\ Onward
        /\ started["rollback"] = 0 =>
             TruePlace(pc'[p], st'[p], at'[p], done'[p], target', source')
    BY <1>s, <2>1 DEF Onward, TruePlace
  <2> QED BY <2>1, <2>2, <2>3, TrueOfOne
<1>13. ASSUME NEW p \in Procs, PhaseFails(p) PROVE MigratedInv'
  <2> DEFINE ph == Order[at[p]]
             u == [st[p] EXCEPT !.conv = @ \ {done[p] + 1}]
             s == IF ph = "convert" THEN u ELSE st[p]
             t == Failed(s, ph)
  <2>1. /\ Persist(p, t, "idle") /\ UNCHANGED <<op, at, done, target, started>>
        /\ source' = source \/ source' = [source EXCEPT ![done[p] + 1] = "off"]
    BY <1>13 DEF PhaseFails
  <2>2. ph \in Phases /\ ph \in PhaseNames /\ "export" \in Phases
    BY <1>s, OrderFacts DEF PhaseNames, Phases
  <2>3. /\ s \in StateType /\ s.cp = st[p].cp /\ s.n = st[p].n /\ s.vm = st[p].vm
        /\ s.power = st[p].power
    <3>1. /\ u \in StateType /\ u.cp = st[p].cp /\ u.n = st[p].n /\ u.vm = st[p].vm
          /\ u.power = st[p].power
      BY <1>s DEF StateType
    <3> QED BY <3>1, <1>s
  <2> HIDE DEF s
  <2>4. SameWork(s, t) /\ (t.cp["export"] = "completed" => s.cp["export"] = "completed")
    BY <2>2, <2>3, FailedFacts, FailedWork
  <2> HIDE DEF t
  <2>5. StepAlone(p) /\ st'[p] = t /\ pc'[p] = "idle"
    BY <2>1 DEF MTypeOK, StepAlone, StepOf, Persist, Keep, Goto
  <2>6. Onward
    BY <1>s, <2>1 DEF Onward
  <2>7. started["rollback"] = 0 => TrueOf(t, target', source')
    <3>1. started["rollback"] = 0 => TrueOf(st[p], target', source')
      BY <1>s, <2>6, TrueOnward DEF TruePlace
    <3> QED BY <2>3, <2>4, <3>1, StaysTrue DEF SameWork
  <2>8. started["rollback"] = 0 =>
          TruePlace(pc'[p], st'[p], at'[p], done'[p], target', source')
    BY <2>5, <2>7 DEF TruePlace
  <2> QED BY <2>1, <2>5, <2>6, <2>8, TrueOfOne
<1>14. ASSUME NEW p \in Procs, PhaseEnds(p) PROVE MigratedInv'
  <2> DEFINE ph == Order[at[p]]
             s == Mark(st[p], ph, "completed")
  <2>1. /\ \E l \in {"final", "start"} : Persist(p, s, l)
        /\ UNCHANGED <<op, done, target, source, started>> /\ pc[p] = "work"
        /\ at' = [at EXCEPT ![p] = IF @ = 5 THEN 5 ELSE @ + 1]
        /\ at[p] = 1 => done[p] = st[p].n
    BY <1>14, <1>s, PhaseIndex DEF PhaseEnds
  <2>2. /\ SameWork(st[p], s) /\ "export" \in Phases
        /\ \A q \in Phases : q # ph => s.cp[q] = st[p].cp[q]
    <3>1. ph \in Phases /\ "completed" \in Status /\ st[p] \in StateType /\ "export" \in Phases
      BY <1>s, OrderFacts DEF Status, Phases
    <3> QED BY <3>1, MarkFacts, MarkWork
  <2> HIDE DEF s
  <2>3. StepAlone(p) /\ st'[p] = s /\ pc'[p] \in {"final", "start"}
    BY <2>1 DEF MTypeOK, StepAlone, StepOf, Persist, Keep, Goto
  <2>4. started["rollback"] = 0 => TrueOf(s, target, source)
    <3>1. CASE at[p] = 1
      <4>1. started["rollback"] = 0 /\ ShutdownSource => \A w \in Workloads : source[w] = "off"
        BY <1>s, <2>1, <3>1 DEF TruePlace, Workloads
      <4> QED BY <1>s, <2>2, <4>1 DEF TruePlace, TrueOf, SameWork
    <3>2. CASE at[p] # 1
      <4>1. s.cp["export"] = st[p].cp["export"]
        BY <1>s, <2>2, <3>2, PhaseIndex
      <4> QED BY <1>s, <2>2, <4>1, StaysTrue DEF TruePlace, SameWork
    <3> QED BY <3>1, <3>2
  <2> QED BY <2>1, <2>3, <2>4, TrueQuiet
<1>15. ASSUME NEW p \in Procs, Completes(p) PROVE MigratedInv'
  <2> DEFINE s == [st[p] EXCEPT !.phase = "complete"]
  <2>1. Persist(p, s, "idle") /\ UNCHANGED <<op, at, done, target, source, started>>
    BY <1>15 DEF Completes
  <2>2. SameWork(st[p], s) /\ s.cp = st[p].cp
    BY <1>s, PhaseFacts, PhaseWork DEF PhaseNames
  <2> HIDE DEF s
  <2>3. StepAlone(p) /\ st'[p] = s /\ pc'[p] = "idle"
    BY <2>1 DEF MTypeOK, StepAlone, StepOf, Persist, Keep, Goto
  <2>4. started["rollback"] = 0 => TrueOf(s, target, source)
    BY <1>s, <2>2, StaysTrue DEF TruePlace, SameWork
  <2> QED BY <2>1, <2>3, <2>4, TrueQuiet
<1>16. ASSUME NEW p \in Procs, RollbackStep(p) PROVE MigratedInv'
  <2>1. pc[p] \in {"load", "remove", "clean", "restore", "save"} /\ UNCHANGED started
    BY <1>16 DEF RollbackStep, RollbackLoads, RollbackRemoves, RollbackCleans,
                 RollbackRestores, RollbackSaves
  <2>2. started["rollback"] # 0
    BY <1>s, <2>1 DEF TruePlace
  <2> QED BY <2>1, <2>2 DEF MigratedInv
<1>17. ASSUME NEW p \in Procs, Abandon(p) PROVE MigratedInv'
  <2>1. /\ StepAlone(p) /\ st'[p] = st[p] /\ pc'[p] = "idle"
        /\ UNCHANGED <<target, source, started>>
    BY <1>17 DEF MTypeOK, StepAlone, StepOf, Abandon, Goto
  <2> QED BY <1>s, <2>1, TrueQuiet DEF TruePlace
<1> QED BY <1>0, <1>1, <1>2, <1>3, <1>4, <1>5, <1>6, <1>7, <1>8, <1>9, <1>10,
           <1>11, <1>12, <1>13, <1>14, <1>15, <1>16, <1>17
        DEF MNext, RunPhase, RunWorkload

\* Nothing is recorded at the start.
LEMMA MigratedInit == MInit => MigratedInv
<1> SUFFICES ASSUME MInit PROVE MigratedInv
  OBVIOUS
<1>1. TrueOf(NewState, target, source) /\ TrueOf(NotStored, target, source)
  BY MigrationAssumption DEF TrueOf, NewState, NotStored, Phases
<1>2. rec = NotStored /\ \A p \in Procs : pc[p] = "idle" /\ st[p] = NewState
  BY DEF MInit
<1> QED BY <1>1, <1>2 DEF MigratedInv, TruePlace

\* Whatever operations overlap, fail, die and are resumed, a migration that is
\* recorded as complete and was never rolled back has moved all its workloads:
\* their VMs exist on the target and the sources are off if the spec says so.
THEOREM CompletedRunsMigrate ==
  ASSUME ~MayMatchNothing
  PROVE  MSpec => []ResumedRunsMigrate
<1>1. MTypeOK /\ CheckpointInv /\ BackedInv /\ MigratedInv => ResumedRunsMigrate
  <2> SUFFICES ASSUME MTypeOK, CheckpointInv, BackedInv, MigratedInv,
                      started["rollback"] = 0, rec.phase = "complete"
               PROVE  /\ rec.n = N
                      /\ \A w \in Workloads : rec.vm[w] \in target
                      /\ ShutdownSource => \A w \in Workloads : source[w] = "off"
    BY DEF ResumedRunsMigrate, CompleteMeansMigrated
  <2>1. \A j \in 1..5 : rec.cp[Order[j]] = "completed"
    BY DEF CheckpointInv, StateInv, AllCompleted
  <2>2. rec.cp["export"] = "completed" /\ rec.cp["import"] = "completed"
    BY <2>1 DEF Order
  <2>3. rec.n = N
    <3>1. rec.n \in {0, N}
      BY DEF MTypeOK, StateType
    <3>2. rec.n # 0
      BY <2>1 DEF BackedInv, BackedState
    <3> QED BY <3>1, <3>2
  <2>4. \A w \in Workloads : rec.vm[w] # 0
    BY <2>2, <2>3 DEF BackedInv, BackedState, Workloads
  <2> QED BY <2>2, <2>3, <2>4 DEF MigratedInv, TrueOf
<1>2. MTypeOK /\ CheckpointInv /\ BackedInv /\ [MNext]_mvars => BackedInv'
  BY BackedStep
<1>3. MTypeOK /\ CheckpointInv /\ [MNext]_mvars => CheckpointInv'
  BY CheckpointStep
<1>4. MTypeOK /\ CheckpointInv /\ BackedInv /\ MigratedInv /\ [MNext]_mvars => MigratedInv'
  BY MigratedStep
<1> QED BY <1>1, <1>2, <1>3, <1>4, BackedInit, CheckpointInit, MigratedInit, TypeCorrect, PTL
        DEF MSpec

-----------------------------------------------------------------------------
\* The recovery point and the rollback of a migration whose operations come one
\* after another: for every number of workloads, of resumptions and of rollbacks,
\* with every fault and crash.  Operations that overlap, or a second execution, may
\* lose the first power of the sources, which is why the theorems name their one
\* operation.

\* The order of the operations.

Running == {"discover", "begin", "start", "point", "work", "final"}

RollingBack == {"load", "remove", "clean", "restore", "save"}

\* How operation p and the store stand to each other when no other operation
\* runs and the migration is executed once: the execution comes first, a copy
\* has the stored checkpoints, a rolled back migration is not run any more.
OrderInv(p) ==
  /\ started["execute"] = 0 => rec.phase = "none" /\ pc[p] = "idle"
  /\ rec.phase = "none" =>
       /\ rec = NotStored /\ ~point.taken /\ source = orig
       /\ pc[p] = "idle" \/ (pc[p] = "discover" /\ op[p] = "execute")
  /\ pc[p] = "discover" /\ op[p] = "execute" => rec.phase = "none" /\ st[p] = NewState
  /\ pc[p] \in Running =>
       /\ st[p].cp = rec.cp /\ rec.phase # "rolled_back"
       /\ st[p].phase \notin {"none", "rolled_back"}
  /\ pc[p] \in {"remove", "clean", "restore", "save"} => st[p] = rec
  /\ pc[p] \in RollingBack => rp[p] = point /\ point.taken
  /\ pc[p] \in {"start", "point", "work"} => st[p].cp[Order[at[p]]] # "completed"

\* What one step of the only operation makes of its own variables.
LEMMA CellFacts ==
  ASSUME MTypeOK, NEW p \in Procs
  PROVE  /\ \A s, l : Persist(p, s, l) => rec' = s /\ st'[p] = s /\ pc'[p] = l
         /\ \A s : Keep(p, s) => st'[p] = s
         /\ \A l : Goto(p, l) => pc'[p] = l
         /\ \A o, b : Begin(p, o, b) =>
              /\ pc[p] = "idle" /\ op'[p] = o /\ started[o] < b
              /\ o \in {"execute", "resume", "rollback"} =>
                   /\ started'[o] = started[o] + 1
                   /\ \A x \in {"execute", "resume", "rollback"} \ {o} : started'[x] = started[x]
         /\ Handled(p) => done'[p] = done[p] + 1
BY DEF MTypeOK, Persist, Keep, Goto, Begin, Handled

\* Nothing is stored and no operation runs at the start.
LEMMA OrderInit == ASSUME NEW p \in Procs, MInit PROVE OrderInv(p)
BY DEF MInit, OrderInv, NotStored, NewState, NoPoint, Running, RollingBack

\* Every step of the only operation preserves the invariant: a second
\* execution, which would forget the first one's record, is not started.
LEMMA OrderStep ==
  ASSUME NEW p, Procs = {p}, MaxExecutes <= 1,
         MTypeOK, CheckpointInv, OrderInv(p), [MNext]_mvars
  PROVE  OrderInv(p)'
<1> USE DEF stored, world, OrderInv, Running, RollingBack
<1>0. CASE UNCHANGED mvars
  BY <1>0 DEF mvars, procs
<1>s. /\ p \in Procs /\ st[p] \in StateType /\ st[p].phase \in PhaseNames
      /\ at[p] \in 1..5 /\ PlaceInv(pc[p], op[p], st[p], at[p])
      /\ started["execute"] \in Nat /\ MaxExecutes \in Nat
      /\ source \in [Workloads -> Power] /\ st[p].n \in {0, N}
  BY MigrationAssumption DEF MTypeOK, CheckpointInv, StateType, PhaseNames
<1>1. CASE StartExecute(p)
  <2>1. /\ pc[p] = "idle" /\ started["execute"] = 0 /\ started'["execute"] # 0
        /\ op'[p] = "execute" /\ st'[p] = NewState /\ pc'[p] = "discover"
        /\ UNCHANGED <<rec, point, source, orig>>
    BY <1>1, <1>s, CellFacts DEF StartExecute
  <2>2. NewState.phase = "plan" /\ NewState.cp = NotStored.cp /\ rec.phase = "none"
    BY <2>1 DEF NewState, NotStored
  <2> QED BY <2>1, <2>2
<1>2. CASE StartResume(p)
  <2>1. /\ pc[p] = "idle" /\ op'[p] = "resume" /\ st'[p] = rec /\ pc'[p] = "discover"
        /\ started'["execute"] = started["execute"]
        /\ UNCHANGED <<rec, point, source, orig>>
        /\ rec.phase \notin {"none", "complete", "rolled_back"}
    BY <1>2, <1>s, CellFacts DEF StartResume
  <2> QED BY <2>1
<1>3. CASE StartRollback(p)
  <2>1. /\ pc[p] = "idle" /\ pc'[p] = "load"
        /\ started'["execute"] = started["execute"]
        /\ UNCHANGED <<rec, point, source, orig>>
        /\ point.taken /\ rec.phase # "none"
    BY <1>3, <1>s, CellFacts DEF StartRollback
  <2>2. rp'[p] = point
    BY <1>3, <1>s DEF StartRollback, MTypeOK
  <2> QED BY <2>1, <2>2
<1>4. CASE DiscoverFails(p) \/ TakePointFails(p)
  <2>1. PICK ph \in PhaseNames : Fail(p, ph) /\ pc[p] # "idle" /\ UNCHANGED started
    BY <1>4, <1>s, OrderFacts DEF DiscoverFails, TakePointFails, PhaseNames, Phases
  <2>2. rec' = Failed(st[p], ph) /\ pc'[p] = "idle"
    BY <1>s, <2>1, CellFacts DEF Fail
  <2>3. rec'.phase = "failed"
    BY <1>s, <2>2, FailedFacts
  <2> QED BY <2>1, <2>2, <2>3
<1>5. CASE ExecutePlans(p)
  <2>1. PICK n \in {0, N} :
          IF n = 0
          THEN Persist(p, Failed(Planned(st[p], n), "plan"), "idle")
          ELSE \E l \in {"idle", "begin"} :
                 Persist(p, Mark(Planned(st[p], n), "plan", "completed"), l)
    BY <1>5 DEF ExecutePlans, Matches
  <2>2. pc[p] = "discover" /\ op[p] = "execute" /\ UNCHANGED <<op, started, at>>
    BY <1>5 DEF ExecutePlans
  <2>3. Planned(st[p], n) \in StateType /\ Planned(st[p], n).phase = "plan"
    BY <1>s, <2>2, PlannedFacts DEF PlaceInv
  <2>4. "plan" \in Phases /\ "plan" \in PhaseNames /\ "completed" \in Status
    BY DEF Phases, PhaseNames, Status
  <2>5. /\ Failed(Planned(st[p], n), "plan").phase = "failed"
        /\ Mark(Planned(st[p], n), "plan", "completed").phase = "plan"
    BY <2>3, <2>4, FailedFacts, MarkFacts
  <2>6. rec' = st'[p] /\ rec'.phase \in {"failed", "plan"} /\ pc'[p] \in {"idle", "begin"}
    BY <1>s, <2>1, <2>5, CellFacts
  <2> QED BY <2>2, <2>6
<1>6. CASE ResumeContinues(p)
  <2>1. PICK n \in {0, N} :
          LET s == IF st[p].n = 0 THEN Planned(st[p], n)
                   ELSE [st[p] EXCEPT !.planned = TRUE]
          IN \/ Persist(p, s, "idle") /\ UNCHANGED at
             \/ /\ NextPhase(s) = 0
                /\ Persist(p, [s EXCEPT !.phase = "complete"], "idle")
                /\ UNCHANGED at
             \/ /\ NextPhase(s) # 0
                /\ Keep(p, s) /\ Goto(p, "start")
                /\ at' = [at EXCEPT ![p] = NextPhase(s)]
                /\ UNCHANGED rec
    BY <1>6 DEF ResumeContinues, Matches
  <2> DEFINE s == IF st[p].n = 0 THEN Planned(st[p], n)
                  ELSE [st[p] EXCEPT !.planned = TRUE]
  <2>2. s \in StateType /\ s.phase = st[p].phase /\ s.cp = st[p].cp
    <3>1. LET t == [st[p] EXCEPT !.planned = TRUE]
          IN t \in StateType /\ t.phase = st[p].phase /\ t.cp = st[p].cp
      BY <1>s DEF StateType
    <3> QED BY <1>s, <3>1, PlannedFacts
  <2> HIDE DEF s
  <2>3. [s EXCEPT !.phase = "complete"].phase = "complete"
    BY <2>2, PhaseFacts DEF PhaseNames
  <2>4. pc[p] = "discover" /\ op[p] = "resume" /\ UNCHANGED <<op, started, point>>
    BY <1>6 DEF ResumeContinues
  <2>5. CASE rec' \in {s, [s EXCEPT !.phase = "complete"]} /\ pc'[p] = "idle"
    BY <2>2, <2>3, <2>4, <2>5
  <2>6. CASE /\ NextPhase(s) # 0 /\ Keep(p, s) /\ Goto(p, "start")
             /\ at' = [at EXCEPT ![p] = NextPhase(s)] /\ UNCHANGED rec
    <3>1. s.cp[Order[NextPhase(s)]] # "completed"
      BY <2>6, NextPhaseFacts
    <3>2. st'[p] = s /\ pc'[p] = "start" /\ at'[p] = NextPhase(s)
      BY <1>s, <2>6, CellFacts DEF MTypeOK
    <3> QED BY <2>2, <2>4, <2>6, <3>1, <3>2
  <2> QED BY <1>s, <2>1, <2>5, <2>6, CellFacts DEF s
<1>7. CASE TakePoint(p)
  <2>1. /\ pc[p] \in {"begin", "point"} /\ point' = PointOf(st[p])
        /\ pc'[p] = (IF pc[p] = "begin" THEN "start" ELSE "work")
        /\ at'[p] = (IF pc[p] = "begin" THEN 1 ELSE at[p])
        /\ UNCHANGED <<rec, op, st, started>>
    BY <1>7, <1>s, CellFacts DEF TakePoint, MTypeOK
  <2>2. pc[p] = "begin" => st[p].cp[Order[1]] # "completed"
    BY <1>s DEF PlaceInv, AllPending
  <2> QED BY <2>1, <2>2
<1>8. CASE SetPhase(p)
  <2> DEFINE ph == Order[at[p]]
             t == [st[p] EXCEPT !.phase = ph]
             s == Mark(t, ph, "running")
  <2>1. ph \in Phases /\ ph \in PhaseNames /\ "running" \in Status
    BY <1>s, OrderFacts DEF PhaseNames, Status
  <2>2. t \in StateType /\ t.phase = ph
    BY <1>s, <2>1, PhaseFacts
  <2>3. rec' = s /\ st'[p] = s /\ pc'[p] = "point" /\ pc[p] = "start"
        /\ UNCHANGED <<op, at, started>>
    BY <1>8, <1>s, CellFacts DEF SetPhase
  <2> HIDE DEF t
  <2>4. s.phase = ph /\ s.cp[ph] = "running"
    BY <2>1, <2>2, MarkFacts
  <2> HIDE DEF s
  <2>5. ph \notin {"none", "rolled_back"}
    BY <1>s, OrderFacts
  <2> QED BY <2>3, <2>4, <2>5
<1>9. CASE RunExport(p) \/ RunOnTarget(p)
  <2>1. pc[p] = "work" /\ UNCHANGED <<rec, point, pc, op, st, at, rp, orig, started>>
    BY <1>9 DEF RunExport, RunOnTarget, Working
  <2> QED BY <2>1
<1>10. CASE RunConvert(p) \/ RunImport(p)
  <2>1. /\ pc[p] = "work" /\ UNCHANGED <<rec, point, pc, op, at, rp, source, orig, started>>
        /\ \/ st'[p] = [st[p] EXCEPT !.conv = @ \cup {done[p] + 1}]
           \/ st'[p] = [st[p] EXCEPT !.vm[done[p] + 1] = created + 1]
    BY <1>10, <1>s, CellFacts DEF RunConvert, RunImport, Working
  <2>2. st'[p].cp = st[p].cp /\ st'[p].phase = st[p].phase
    BY <1>s, <2>1 DEF StateType
  <2> QED BY <2>1, <2>2
<1>11. CASE PhaseFails(p)
  <2> DEFINE ph == Order[at[p]]
             s == IF ph = "convert"
                  THEN [st[p] EXCEPT !.conv = @ \ {done[p] + 1}] ELSE st[p]
  <2>1. /\ rec' = Failed(s, ph) /\ pc'[p] = "idle" /\ pc[p] = "work"
        /\ UNCHANGED <<point, started>>
    BY <1>11, <1>s, CellFacts DEF PhaseFails, Working
  <2>2. s \in StateType /\ ph \in PhaseNames
    BY <1>s, OrderFacts DEF PhaseNames, StateType
  <2>3. rec'.phase = "failed"
    BY <2>1, <2>2, FailedFacts
  <2> QED BY <2>1, <2>3
<1>12. CASE PhaseEnds(p)
  <2> DEFINE ph == Order[at[p]]
             s == Mark(st[p], ph, "completed")
             l == IF at[p] = 5 THEN "final" ELSE "start"
  <2>1. /\ rec' = s /\ st'[p] = s /\ pc'[p] = l /\ pc[p] = "work"
        /\ at'[p] = (IF at[p] = 5 THEN 5 ELSE at[p] + 1)
        /\ UNCHANGED <<point, started>>
    BY <1>12, <1>s, CellFacts DEF PhaseEnds, MTypeOK
  <2>2. ph \in Phases /\ "completed" \in Status
    BY <1>s, OrderFacts DEF Status
  <2>3. s.phase = st[p].phase /\ \A q \in Phases : q # ph => s.cp[q] = st[p].cp[q]
    BY <1>s, <2>2, MarkFacts
  <2> HIDE DEF s
  <2>4. at[p] # 5 => s.cp[Order[at[p] + 1]] # "completed"
    <3> SUFFICES ASSUME at[p] # 5 PROVE s.cp[Order[at[p] + 1]] # "completed"
      OBVIOUS
    <3>1. at[p] + 1 \in 1..5 /\ Reached(st[p], at[p])
      BY <1>s, <2>1 DEF PlaceInv
    <3>2. st[p].cp[Order[at[p] + 1]] = "pending"
      BY <1>s, <3>1 DEF Reached
    <3>3. Order[at[p] + 1] # ph /\ Order[at[p] + 1] \in Phases
      BY <1>s, <3>1, OrderFacts
    <3> QED BY <2>3, <3>2, <3>3
  <2> QED BY <1>s, <2>1, <2>3, <2>4
<1>13. CASE Completes(p)
  <2>1. /\ rec' = [st[p] EXCEPT !.phase = "complete"] /\ pc'[p] = "idle" /\ pc[p] = "final"
        /\ UNCHANGED <<point, started>>
    BY <1>13, <1>s, CellFacts DEF Completes
  <2>2. rec'.phase = "complete"
    BY <1>s, <2>1, PhaseFacts DEF PhaseNames
  <2> QED BY <2>1, <2>2
<1>14. CASE RollbackLoads(p)
  <2>1. /\ pc[p] = "load" /\ pc'[p] = "remove" /\ st'[p] = rec
        /\ UNCHANGED <<rec, point, op, at, rp, source, orig, started>>
    BY <1>14, <1>s, CellFacts DEF RollbackLoads
  <2> QED BY <2>1
<1>15. CASE RollbackRemoves(p) \/ RollbackCleans(p) \/ RollbackRestores(p)
  <2>1. /\ pc[p] \in {"remove", "clean", "restore"} /\ pc'[p] \in {"clean", "restore", "save"}
        /\ UNCHANGED <<rec, point, op, st, at, rp, orig, started>>
    BY <1>15, <1>s, CellFacts DEF RollbackRemoves, RollbackCleans, RollbackRestores
  <2> QED BY <2>1
<1>16. CASE RollbackSaves(p)
  <2>1. PICK ph \in {"failed", "rolled_back"} :
          /\ rec' = [st[p] EXCEPT !.phase = ph] /\ pc'[p] = "idle" /\ pc[p] = "save"
          /\ UNCHANGED <<point, started>>
    BY <1>16, <1>s, CellFacts DEF RollbackSaves
  <2>2. rec'.phase = ph
    BY <1>s, <2>1, PhaseFacts DEF PhaseNames
  <2> QED BY <2>1, <2>2
<1>17. CASE Abandon(p)
  <2>1. pc[p] # "idle" /\ pc'[p] = "idle" /\ UNCHANGED <<rec, point, source, orig, started>>
    BY <1>17, <1>s, CellFacts DEF Abandon
  <2> QED BY <2>1
<1> QED BY <1>0, <1>1, <1>2, <1>3, <1>4, <1>5, <1>6, <1>7, <1>8, <1>9, <1>10,
           <1>11, <1>12, <1>13, <1>14, <1>15, <1>16, <1>17
        DEF MNext, RunPhase, RunWorkload, RollbackStep

-----------------------------------------------------------------------------
\* The power of the sources.

\* A state that has a plan recorded the power its sources had at first.
KnowsPower(s) == s.n = N => s.power = orig

\* A source that differs from its first power is covered by the stored point,
\* which was taken from a state that knows that power; an operation that may
\* still switch sources off has taken such a point.
PowerInv(p) ==
  /\ KnowsPower(rec) /\ KnowsPower(st[p])
  /\ point.taken /\ point.n = N => point.power = orig
  /\ source # orig =>
       /\ point.taken /\ point.n = N /\ rec.n = N
       /\ pc[p] \in Running => st[p].n = N
  /\ pc[p] = "work" => point.taken /\ point.n = st[p].n
  /\ pc[p] \in {"point", "work"} => rec.n = st[p].n
  /\ pc[p] = "save" /\ ~errs[p] => source = orig
  /\ rec.phase = "rolled_back" => source = orig

\* At the start the sources have their first power.
LEMMA PowerInit == ASSUME NEW p \in Procs, MInit PROVE PowerInv(p)
BY MigrationAssumption DEF MInit, PowerInv, KnowsPower, NotStored, NewState, NoPoint, Running

\* Every step keeps the first power of the sources known.
LEMMA PowerStep ==
  ASSUME NEW p, Procs = {p}, MTypeOK, OrderInv(p), PowerInv(p), OrderInv(p)', [MNext]_mvars
  PROVE  PowerInv(p)'
<1> USE DEF stored, world, PowerInv, KnowsPower
<1>0. CASE UNCHANGED mvars
  BY <1>0 DEF mvars, procs
<1>s. /\ p \in Procs /\ st[p] \in StateType /\ st[p].phase \in PhaseNames
      /\ at[p] \in 1..5 /\ N \in Nat \ {0}
      /\ source \in [Workloads -> Power] /\ orig \in [Workloads -> Power]
      /\ st[p].n \in {0, N}
  BY MigrationAssumption DEF MTypeOK, StateType, PhaseNames
<1>1. CASE StartExecute(p)
  <2>1. /\ pc[p] = "idle" /\ st'[p] = NewState /\ pc'[p] = "discover" /\ op'[p] = "execute"
        /\ UNCHANGED <<rec, point, source, orig>>
    BY <1>1, <1>s, CellFacts DEF StartExecute
  <2>2. NewState.n = 0 /\ (rec.phase = "none" => source = orig)
    BY DEF NewState, OrderInv
  <2>3. rec.phase = "none"
    BY <2>1 DEF OrderInv
  <2> QED BY <1>s, <2>1, <2>2, <2>3 DEF Running
<1>2. CASE StartResume(p)
  <2>1. /\ pc[p] = "idle" /\ st'[p] = rec /\ pc'[p] = "discover"
        /\ UNCHANGED <<rec, point, source, orig>>
    BY <1>2, <1>s, CellFacts DEF StartResume
  <2> QED BY <2>1
<1>3. CASE StartRollback(p) \/ Abandon(p)
  <2>1. pc'[p] \in {"load", "idle"} /\ UNCHANGED <<rec, point, st, source, orig>>
    BY <1>3, <1>s, CellFacts DEF StartRollback, Abandon
  <2> QED BY <2>1 DEF Running
<1>4. CASE DiscoverFails(p) \/ TakePointFails(p)
  <2>1. PICK ph \in PhaseNames : Fail(p, ph) /\ pc[p] \in Running /\ UNCHANGED <<point, source, orig>>
    BY <1>4, <1>s, OrderFacts DEF DiscoverFails, TakePointFails, PhaseNames, Phases, Running
  <2> DEFINE s == Failed(st[p], ph)
  <2>2. rec' = s /\ st'[p] = s /\ pc'[p] = "idle"
    BY <1>s, <2>1, CellFacts DEF Fail
  <2>3. s.phase = "failed" /\ SameWork(st[p], s)
    BY <1>s, FailedFacts, FailedWork
  <2> HIDE DEF s
  <2> QED BY <2>1, <2>2, <2>3 DEF SameWork, Running
<1>5. CASE ExecutePlans(p)
  <2>1. PICK n \in {0, N} :
          IF n = 0
          THEN Persist(p, Failed(Planned(st[p], n), "plan"), "idle")
          ELSE \E l \in {"idle", "begin"} :
                 Persist(p, Mark(Planned(st[p], n), "plan", "completed"), l)
    BY <1>5 DEF ExecutePlans, Matches
  <2> DEFINE u == Planned(st[p], n)
  <2>2. pc[p] = "discover" /\ op[p] = "execute" /\ UNCHANGED <<point, source, orig>>
    BY <1>5 DEF ExecutePlans
  <2>3. source = orig /\ st[p].phase = "plan"
    BY <2>2 DEF OrderInv, NewState
  <2>4. u \in StateType /\ u.phase = "plan" /\ (u.n = N => u.power = orig)
    BY <1>s, <2>3, PlannedFacts, PlannedWork
  <2> HIDE DEF u
  <2>5. "plan" \in Phases /\ "plan" \in PhaseNames /\ "completed" \in Status
    BY DEF Phases, PhaseNames, Status
  <2>6. /\ Failed(u, "plan").phase = "failed" /\ SameWork(u, Failed(u, "plan"))
        /\ Mark(u, "plan", "completed").phase = "plan" /\ SameWork(u, Mark(u, "plan", "completed"))
    BY <2>4, <2>5, FailedFacts, FailedWork, MarkFacts, MarkWork
  <2>7. /\ rec' = st'[p] /\ pc'[p] \in {"idle", "begin"}
        /\ rec' \in {Failed(u, "plan"), Mark(u, "plan", "completed")}
    BY <1>s, <2>1, CellFacts DEF u
  <2> QED BY <2>2, <2>3, <2>4, <2>6, <2>7 DEF SameWork
<1>6. CASE ResumeContinues(p)
  <2>1. PICK n \in {0, N} :
          LET s == IF st[p].n = 0 THEN Planned(st[p], n)
                   ELSE [st[p] EXCEPT !.planned = TRUE]
          IN \/ Persist(p, s, "idle")
             \/ Persist(p, [s EXCEPT !.phase = "complete"], "idle")
             \/ Keep(p, s) /\ Goto(p, "start") /\ UNCHANGED rec
    BY <1>6 DEF ResumeContinues, Matches
  <2> DEFINE s == IF st[p].n = 0 THEN Planned(st[p], n)
                  ELSE [st[p] EXCEPT !.planned = TRUE]
             t == [s EXCEPT !.phase = "complete"]
  <2>2. pc[p] = "discover" /\ UNCHANGED <<point, source, orig>>
    BY <1>6 DEF ResumeContinues
  <2>3. /\ s \in StateType /\ s.phase = st[p].phase
        /\ s.n = N => s.power = orig
        /\ st[p].n = N => s.n = N
    <3>1. CASE st[p].n = 0
      <4>1. source = orig
        BY <1>s, <2>2, <3>1 DEF Running
      <4> QED BY <1>s, <3>1, <4>1, PlannedFacts, PlannedWork
    <3>2. CASE st[p].n # 0
      BY <1>s, <3>2 DEF StateType
    <3> QED BY <3>1, <3>2
  <2> HIDE DEF s, t
  <2>4. \/ rec' \in {s, t} /\ st'[p] = rec' /\ pc'[p] = "idle"
        \/ rec' = rec /\ st'[p] = s /\ pc'[p] = "start"
    <3>1. \/ Persist(p, s, "idle") \/ Persist(p, t, "idle")
          \/ Keep(p, s) /\ Goto(p, "start") /\ UNCHANGED rec
      BY <2>1 DEF s, t
    <3> QED BY <1>s, <3>1, CellFacts
  <2>5. t.phase = "complete" /\ SameWork(s, t)
    BY <2>3, PhaseFacts, PhaseWork DEF PhaseNames, t
  <2>6. st[p].phase # "rolled_back"
    BY <2>2 DEF OrderInv, Running
  <2> QED BY <2>2, <2>3, <2>4, <2>5, <2>6 DEF SameWork, Running
<1>7. CASE TakePoint(p)
  <2>1. /\ pc[p] \in {"begin", "point"} /\ point' = PointOf(st[p])
        /\ pc'[p] = (IF pc[p] = "begin" THEN "start" ELSE "work")
        /\ UNCHANGED <<rec, st, source, orig>>
    BY <1>7, <1>s, CellFacts DEF TakePoint
  <2>2. /\ PointOf(st[p]).taken /\ PointOf(st[p]).n = st[p].n
        /\ PointOf(st[p]).power = st[p].power
    BY DEF PointOf
  <2> QED BY <2>1, <2>2 DEF Running
<1>8. CASE SetPhase(p)
  <2> DEFINE ph == Order[at[p]]
             t == [st[p] EXCEPT !.phase = ph]
             s == Mark(t, ph, "running")
  <2>1. ph \in Phases /\ ph \in PhaseNames /\ "running" \in Status
    BY <1>s, OrderFacts DEF PhaseNames, Status
  <2>2. t \in StateType /\ t.phase = ph /\ SameWork(st[p], t)
    BY <1>s, <2>1, PhaseFacts, PhaseWork
  <2>3. /\ rec' = s /\ st'[p] = s /\ pc'[p] = "point" /\ pc[p] = "start"
        /\ UNCHANGED <<point, source, orig>>
    BY <1>8, <1>s, CellFacts DEF SetPhase
  <2> HIDE DEF t
  <2>4. s.phase = ph /\ SameWork(t, s)
    BY <2>1, <2>2, MarkFacts, MarkWork
  <2> HIDE DEF s
  <2>5. ph # "rolled_back"
    BY <1>s, OrderFacts
  <2> QED BY <2>2, <2>3, <2>4, <2>5 DEF SameWork, Running
<1>9. CASE RunExport(p)
  <2>1. /\ pc[p] = "work" /\ done[p] < st[p].n /\ UNCHANGED <<rec, point, pc, st, orig>>
    BY <1>9 DEF RunExport, Working
  <2>2. st[p].n = N
    BY <1>s, <2>1 DEF MTypeOK
  <2>3. rec.phase # "rolled_back"
    BY <2>1 DEF OrderInv, Running
  <2> QED BY <2>1, <2>2, <2>3
<1>10. CASE RunConvert(p) \/ RunImport(p) \/ RunOnTarget(p)
  <2>1. /\ pc[p] = "work" /\ UNCHANGED <<rec, point, pc, source, orig>>
        /\ \/ st'[p] = [st[p] EXCEPT !.conv = @ \cup {done[p] + 1}]
           \/ st'[p] = [st[p] EXCEPT !.vm[done[p] + 1] = created + 1]
           \/ st'[p] = st[p]
    BY <1>10, <1>s, CellFacts DEF RunConvert, RunImport, RunOnTarget, Working
  <2>2. st'[p].n = st[p].n /\ st'[p].power = st[p].power
    BY <1>s, <2>1 DEF StateType
  <2> QED BY <2>1, <2>2
<1>11. CASE PhaseFails(p)
  <2> DEFINE ph == Order[at[p]]
             u == [st[p] EXCEPT !.conv = @ \ {done[p] + 1}]
             s == IF ph = "convert" THEN u ELSE st[p]
             t == Failed(s, ph)
  <2>1. /\ rec' = t /\ st'[p] = t /\ pc'[p] = "idle" /\ pc[p] = "work"
        /\ done[p] < st[p].n /\ UNCHANGED <<point, orig>>
    BY <1>11, <1>s, CellFacts DEF PhaseFails, Working
  <2>2. st[p].n = N
    BY <1>s, <2>1 DEF MTypeOK
  <2>3. s \in StateType /\ ph \in PhaseNames /\ s.n = N /\ s.power = st[p].power
    <3>1. u \in StateType /\ u.n = st[p].n /\ u.power = st[p].power
      BY <1>s DEF StateType
    <3> QED BY <1>s, <2>2, <3>1, OrderFacts DEF PhaseNames
  <2> HIDE DEF s
  <2>4. t.phase = "failed" /\ SameWork(s, t)
    BY <2>3, FailedFacts, FailedWork
  <2> HIDE DEF t
  <2> QED BY <2>1, <2>2, <2>3, <2>4 DEF SameWork, Running
<1>12. CASE PhaseEnds(p)
  <2> DEFINE s == Mark(st[p], Order[at[p]], "completed")
  <2>1. /\ rec' = s /\ st'[p] = s /\ pc'[p] \in {"final", "start"} /\ pc[p] = "work"
        /\ UNCHANGED <<point, source, orig>>
    BY <1>12, <1>s, CellFacts DEF PhaseEnds
  <2>2. Order[at[p]] \in Phases /\ "completed" \in Status
    BY <1>s, OrderFacts DEF Status
  <2>3. SameWork(st[p], s) /\ s.phase = st[p].phase
    BY <1>s, <2>2, MarkFacts, MarkWork
  <2> HIDE DEF s
  <2>4. st[p].phase # "rolled_back"
    BY <2>1 DEF OrderInv, Running
  <2> QED BY <2>1, <2>3, <2>4 DEF SameWork, Running
<1>13. CASE Completes(p)
  <2> DEFINE s == [st[p] EXCEPT !.phase = "complete"]
  <2>1. /\ rec' = s /\ st'[p] = s /\ pc'[p] = "idle" /\ pc[p] = "final"
        /\ UNCHANGED <<point, source, orig>>
    BY <1>13, <1>s, CellFacts DEF Completes
  <2>2. s.phase = "complete" /\ SameWork(st[p], s)
    BY <1>s, PhaseFacts, PhaseWork DEF PhaseNames
  <2> HIDE DEF s
  <2> QED BY <2>1, <2>2 DEF SameWork, Running
<1>14. CASE RollbackLoads(p)
  <2>1. /\ pc'[p] = "remove" /\ st'[p] = rec /\ UNCHANGED <<rec, point, source, orig>>
    BY <1>14, <1>s, CellFacts DEF RollbackLoads
  <2> QED BY <2>1 DEF Running
<1>15. CASE RollbackRemoves(p) \/ RollbackCleans(p)
  <2>1. /\ pc'[p] \in {"clean", "restore"} /\ UNCHANGED <<rec, point, st, source, orig>>
    BY <1>15, <1>s, CellFacts DEF RollbackRemoves, RollbackCleans
  <2> QED BY <2>1 DEF Running
<1>16. CASE RollbackRestores(p)
  <2>1. PICK bad \in FailedCalls(1..rp[p].n) :
          /\ source' = [w \in Workloads |-> IF w \in (1..rp[p].n) \ bad
                                            THEN rp[p].power[w] ELSE source[w]]
          /\ Note(p, bad)
    BY <1>16 DEF RollbackRestores
  <2>2. /\ pc'[p] = "save" /\ rp[p] = point /\ point.taken /\ point.n \in {0, N}
        /\ point.power \in [Workloads -> Power]
        /\ UNCHANGED <<rec, point, st, orig>>
    BY <1>16, <1>s, CellFacts DEF RollbackRestores, OrderInv, RollingBack, MTypeOK, PointType
  <2>3. ~errs'[p] => bad = {}
    BY <1>s, <2>1 DEF Note, MTypeOK
  <2>4. CASE point.n = N
    <3>1. source = orig => source' = orig
      BY <1>s, <2>1, <2>2, <2>4
    <3>2. bad = {} => source' = orig
      BY <1>s, <2>1, <2>2, <2>4 DEF Workloads
    <3> QED BY <2>2, <2>3, <2>4, <3>1, <3>2 DEF Running
  <2>5. CASE point.n = 0
    <3>1. source = orig
      BY <1>s, <2>5
    <3>2. source' = orig
      BY <1>s, <2>1, <2>2, <2>5, <3>1
    <3> QED BY <2>2, <3>2 DEF Running
  <2> QED BY <2>2, <2>4, <2>5
<1>17. CASE RollbackSaves(p)
  <2> DEFINE ph == IF errs[p] THEN "failed" ELSE "rolled_back"
             s == [st[p] EXCEPT !.phase = ph]
  <2>1. /\ rec' = s /\ st'[p] = s /\ pc'[p] = "idle" /\ pc[p] = "save" /\ st[p] = rec
        /\ UNCHANGED <<point, source, orig>>
    BY <1>17, <1>s, CellFacts DEF RollbackSaves, OrderInv
  <2>2. s.phase = ph /\ SameWork(st[p], s)
    BY <1>s, PhaseFacts, PhaseWork DEF PhaseNames
  <2> HIDE DEF s
  <2> QED BY <2>1, <2>2 DEF SameWork, Running
<1> QED BY <1>0, <1>1, <1>2, <1>3, <1>4, <1>5, <1>6, <1>7, <1>8, <1>9, <1>10,
           <1>11, <1>12, <1>13, <1>14, <1>15, <1>16, <1>17
        DEF MNext, RunPhase, RunWorkload, RollbackStep

-----------------------------------------------------------------------------
\* What a rollback leaves behind.

\* A state without a plan records no work, and a recovery point covers a state
\* when it lists every target VM and converted disk that the state records.
Planless(s) == s.n = 0 => s.conv = {} /\ \A w \in Workloads : s.vm[w] = 0

Covers(pt, s) ==
  /\ s.conv \subseteq pt.files
  /\ \A w \in Workloads : s.vm[w] \in pt.vms \cup {0}

\* Once configuration is completed the stored point covers the record, because
\* each phase takes its own point and no later phase records work; a rollback
\* without errors removes all that the point lists.
ArtifactInv(p) ==
  /\ Planless(rec) /\ Planless(st[p])
  /\ rec.cp["configure"] = "completed" => Covers(point, rec)
  /\ pc[p] \in Running /\ rec.cp["configure"] = "completed" =>
       st[p].vm = rec.vm /\ st[p].conv = rec.conv
  /\ pc[p] = "work" /\ at[p] >= 4 => Covers(point, st[p])
  /\ pc[p] \in {"clean", "restore", "save"} /\ ~errs[p] => rp[p].vms \cap target = {}
  /\ pc[p] \in {"restore", "save"} /\ ~errs[p] => rp[p].files \cap files = {}
  /\ RollbackUndoesRecord

\* The point made from a state covers it.
LEMMA PointCovers ==
  ASSUME NEW s \in StateType, Planless(s)
  PROVE  Covers(PointOf(s), s)
<1>1. s.n \in {0, N} /\ s.conv \subseteq Workloads
  BY DEF StateType
<1>2. /\ PointOf(s).vms = {s.vm[w] : w \in 1..s.n} \ {0}
      /\ PointOf(s).files = s.conv \cap 1..s.n
  BY DEF PointOf
<1>3. CASE s.n = 0
  BY <1>2, <1>3 DEF Covers, Planless
<1>4. CASE s.n = N
  BY <1>1, <1>2, <1>4 DEF Covers, Workloads
<1> QED BY <1>1, <1>3, <1>4

\* States with the same work need the same cover.
LEMMA SameCover ==
  ASSUME NEW s, NEW t, NEW pt, t.vm = s.vm, t.conv = s.conv, Covers(pt, s)
  PROVE  Covers(pt, t)
BY DEF Covers

\* Nothing is recorded at the start.
LEMMA ArtifactInit == ASSUME NEW p \in Procs, MInit PROVE ArtifactInv(p)
<1>1. {"configure"} \subseteq Phases
  BY DEF Phases
<1> QED BY <1>1 DEF MInit, ArtifactInv, Planless, RollbackUndoesRecord, NotStored, NewState

\* Every step keeps the recovery point a cover of a configured migration.
LEMMA ArtifactStep ==
  ASSUME NEW p, Procs = {p}, MaxExecutes <= 1,
         MTypeOK, CheckpointInv, OrderInv(p), ArtifactInv(p), [MNext]_mvars
  PROVE  ArtifactInv(p)'
<1> USE DEF stored, world, ArtifactInv, RollbackUndoesRecord
<1>0. CASE UNCHANGED mvars
  BY <1>0 DEF mvars, procs, Planless, Covers
<1>s. /\ p \in Procs /\ st[p] \in StateType /\ st[p].phase \in PhaseNames
      /\ at[p] \in 1..5 /\ N \in Nat \ {0} /\ "configure" \in Phases
      /\ PlaceInv(pc[p], op[p], st[p], at[p])
      /\ source \in [Workloads -> Power] /\ st[p].n \in {0, N} /\ 0 \notin target
  BY MigrationAssumption DEF MTypeOK, CheckpointInv, StateType, PhaseNames, Phases
\* Planless' and Covers' of a value are the unprimed operators.
<1>p. /\ Planless(rec)' = Planless(rec') /\ Planless(st[p])' = Planless(st'[p])
      /\ Covers(point, rec)' = Covers(point', rec')
      /\ Covers(point, st[p])' = Covers(point', st'[p])
  BY DEF Planless, Covers
<1>c. ASSUME pc[p] \in {"begin", "start", "point", "work"}, rec.cp["configure"] = "completed"
      PROVE  pc[p] # "begin" /\ at[p] = 5
  <2>1. st[p].cp[Order[4]] = "completed"
    BY <1>c DEF OrderInv, Running, Order
  <2>2. pc[p] # "begin"
    BY <1>s, <2>1 DEF PlaceInv, AllPending
  <2>3. at[p] # 4
    BY <1>c, <2>1, <2>2 DEF OrderInv
  <2>4. ~(4 > at[p])
    BY <1>s, <1>c, <2>1, <2>2 DEF PlaceInv, Reached
  <2> QED BY <1>s, <2>2, <2>3, <2>4
<1>1. CASE StartExecute(p)
  <2>1. /\ st'[p] = NewState /\ pc'[p] = "discover" /\ started["execute"] < MaxExecutes
        /\ UNCHANGED <<rec, point, target, files>>
    BY <1>1, <1>s, CellFacts DEF StartExecute
  <2>2. rec = NotStored
    BY <1>s, <2>1, MigrationAssumption DEF OrderInv, MTypeOK
  <2>3. rec.cp["configure"] # "completed" /\ Planless(NewState)
    BY <1>s, <2>2 DEF NewState, NotStored, Planless
  <2> QED BY <1>p, <2>1, <2>3
<1>2. CASE StartResume(p)
  <2>1. st'[p] = rec /\ pc'[p] = "discover" /\ UNCHANGED <<rec, point, target, files>>
    BY <1>2, <1>s, CellFacts DEF StartResume
  <2> QED BY <1>p, <2>1
<1>3. CASE StartRollback(p) \/ Abandon(p)
  <2>1. pc'[p] \in {"load", "idle"} /\ UNCHANGED <<rec, point, st, target, files>>
    BY <1>3, <1>s, CellFacts DEF StartRollback, Abandon
  <2> QED BY <1>p, <2>1 DEF Running
<1>4. CASE DiscoverFails(p) \/ TakePointFails(p)
  <2>1. PICK ph \in PhaseNames : Fail(p, ph) /\ pc[p] \in Running
                                 /\ UNCHANGED <<point, target, files>>
    BY <1>4, <1>s, OrderFacts DEF DiscoverFails, TakePointFails, PhaseNames, Phases, Running
  <2> DEFINE s == Failed(st[p], ph)
  <2>2. rec' = s /\ st'[p] = s /\ pc'[p] = "idle"
    BY <1>s, <2>1, CellFacts DEF Fail
  <2>3. /\ s.phase = "failed" /\ SameWork(st[p], s)
        /\ s.cp["configure"] = "completed" => st[p].cp["configure"] = "completed"
    BY <1>s, FailedFacts, FailedWork
  <2> HIDE DEF s
  <2>4. st[p].cp = rec.cp
    BY <2>1 DEF OrderInv
  <2>5. Planless(s) /\ (s.cp["configure"] = "completed" => Covers(point, s))
    BY <2>1, <2>3, <2>4, SameCover DEF SameWork, Planless
  <2> QED BY <1>p, <2>1, <2>2, <2>3, <2>5 DEF Running
<1>5. CASE ExecutePlans(p)
  <2>1. PICK n \in {0, N} :
          IF n = 0
          THEN Persist(p, Failed(Planned(st[p], n), "plan"), "idle")
          ELSE \E l \in {"idle", "begin"} :
                 Persist(p, Mark(Planned(st[p], n), "plan", "completed"), l)
    BY <1>5 DEF ExecutePlans, Matches
  <2> DEFINE u == Planned(st[p], n)
  <2>2. pc[p] = "discover" /\ op[p] = "execute" /\ UNCHANGED <<point, target, files>>
    BY <1>5 DEF ExecutePlans
  <2>3. st[p] = NewState /\ st[p].phase = "plan" /\ st[p].cp["configure"] # "completed"
    BY <1>s, <2>2 DEF OrderInv, NewState
  <2>4. /\ u \in StateType /\ u.phase = "plan" /\ u.cp["configure"] # "completed"
        /\ u.conv = {} /\ \A w \in Workloads : u.vm[w] = 0
    <3>1. NewState.conv = {} /\ \A w \in Workloads : NewState.vm[w] = 0
      BY DEF NewState
    <3> QED BY <1>s, <2>3, <3>1, PlannedFacts, PlannedWork
  <2> HIDE DEF u
  <2>5. "plan" \in Phases /\ "plan" \in PhaseNames /\ "completed" \in Status
    BY DEF Phases, PhaseNames, Status
  <2>6. /\ Failed(u, "plan").phase = "failed" /\ SameWork(u, Failed(u, "plan"))
        /\ Failed(u, "plan").cp["configure"] # "completed"
        /\ Mark(u, "plan", "completed").phase = "plan" /\ SameWork(u, Mark(u, "plan", "completed"))
        /\ Mark(u, "plan", "completed").cp["configure"] # "completed"
    BY <1>s, <2>4, <2>5, FailedFacts, FailedWork, MarkFacts, MarkWork
  <2>7. /\ rec' = st'[p] /\ pc'[p] \in {"idle", "begin"}
        /\ rec' \in {Failed(u, "plan"), Mark(u, "plan", "completed")}
    BY <1>s, <2>1, CellFacts DEF u
  <2>8. Planless(rec')
    BY <2>4, <2>6, <2>7 DEF Planless, SameWork
  <2>9. rec'.cp["configure"] # "completed" /\ rec'.phase # "rolled_back"
    BY <2>6, <2>7
  <2> QED BY <1>p, <2>7, <2>8, <2>9
<1>6. CASE ResumeContinues(p)
  <2>1. PICK n \in {0, N} :
          LET s == IF st[p].n = 0 THEN Planned(st[p], n)
                   ELSE [st[p] EXCEPT !.planned = TRUE]
          IN \/ Persist(p, s, "idle")
             \/ Persist(p, [s EXCEPT !.phase = "complete"], "idle")
             \/ Keep(p, s) /\ Goto(p, "start") /\ UNCHANGED rec
    BY <1>6 DEF ResumeContinues, Matches
  <2> DEFINE s == IF st[p].n = 0 THEN Planned(st[p], n)
                  ELSE [st[p] EXCEPT !.planned = TRUE]
             t == [s EXCEPT !.phase = "complete"]
  <2>2. /\ pc[p] = "discover" /\ UNCHANGED <<point, target, files>>
        /\ st[p].phase # "rolled_back" /\ st[p].cp = rec.cp
    BY <1>6 DEF ResumeContinues, OrderInv, Running
  <2>3. /\ s \in StateType /\ s.phase = st[p].phase /\ s.cp = st[p].cp
        /\ s.vm = st[p].vm /\ s.conv = st[p].conv /\ (s.n = 0 => st[p].n = 0)
    <3>1. CASE st[p].n = 0
      BY <1>s, <3>1, PlannedFacts, PlannedWork
    <3>2. CASE st[p].n # 0
      BY <1>s, <3>2 DEF StateType
    <3> QED BY <3>1, <3>2
  <2> HIDE DEF s, t
  <2>4. \/ rec' \in {s, t} /\ st'[p] = rec' /\ pc'[p] = "idle"
        \/ rec' = rec /\ st'[p] = s /\ pc'[p] = "start"
    <3>1. \/ Persist(p, s, "idle") \/ Persist(p, t, "idle")
          \/ Keep(p, s) /\ Goto(p, "start") /\ UNCHANGED rec
      BY <2>1 DEF s, t
    <3> QED BY <1>s, <3>1, CellFacts
  <2>5. t.phase = "complete" /\ SameWork(s, t) /\ t.cp = s.cp
    BY <2>3, PhaseFacts, PhaseWork DEF PhaseNames, t
  <2>6. /\ Planless(s) /\ Planless(t)
        /\ rec.cp["configure"] = "completed" => Covers(point, s) /\ Covers(point, t)
    BY <2>2, <2>3, <2>5, SameCover DEF Planless, SameWork, Running
  <2> QED BY <1>p, <2>2, <2>3, <2>4, <2>5, <2>6 DEF Running
<1>7. CASE TakePoint(p)
  <2>1. /\ pc[p] \in {"begin", "point"} /\ point' = PointOf(st[p])
        /\ pc'[p] = (IF pc[p] = "begin" THEN "start" ELSE "work")
        /\ UNCHANGED <<rec, st, target, files>>
    BY <1>7, <1>s, CellFacts DEF TakePoint
  <2>2. Covers(point', st[p])
    BY <1>s, <2>1, PointCovers
  <2>3. rec.cp["configure"] = "completed" => Covers(point', rec)
    BY <2>1, <2>2, SameCover DEF Running
  <2>4. rec.phase # "rolled_back"
    BY <2>1 DEF OrderInv, Running
  <2> QED BY <1>p, <2>1, <2>2, <2>3, <2>4 DEF Running
<1>8. CASE SetPhase(p)
  <2> DEFINE ph == Order[at[p]]
             t == [st[p] EXCEPT !.phase = ph]
             s == Mark(t, ph, "running")
  <2>1. ph \in Phases /\ ph \in PhaseNames /\ "running" \in Status /\ ph # "rolled_back"
    BY <1>s, OrderFacts DEF PhaseNames, Status
  <2>2. t \in StateType /\ t.phase = ph /\ t.cp = st[p].cp /\ SameWork(st[p], t)
    BY <1>s, <2>1, PhaseFacts, PhaseWork
  <2>3. /\ rec' = s /\ st'[p] = s /\ pc'[p] = "point" /\ pc[p] = "start"
        /\ UNCHANGED <<point, target, files>>
    BY <1>8, <1>s, CellFacts DEF SetPhase
  <2> HIDE DEF t
  <2>4. /\ s.phase = ph /\ SameWork(t, s)
        /\ s.cp["configure"] = "completed" => st[p].cp["configure"] = "completed"
    BY <1>s, <2>1, <2>2, MarkFacts, MarkWork
  <2> HIDE DEF s
  <2>5. st[p].cp = rec.cp
    BY <2>3 DEF OrderInv, Running
  <2>6. Planless(s) /\ (s.cp["configure"] = "completed" => Covers(point, s))
    BY <2>2, <2>3, <2>4, <2>5, SameCover DEF SameWork, Planless, Running
  <2> QED BY <1>p, <2>1, <2>3, <2>4, <2>6
<1>9. CASE RunExport(p) \/ RunOnTarget(p)
  <2>1. pc[p] = "work" /\ UNCHANGED <<rec, point, pc, st, at, target, files>>
    BY <1>9 DEF RunExport, RunOnTarget, Working
  <2> QED BY <1>p, <2>1
<1>10. CASE RunConvert(p) \/ RunImport(p)
  <2>1. /\ pc[p] = "work" /\ at[p] \in {2, 3} /\ done[p] < st[p].n
        /\ UNCHANGED <<rec, point, pc, at>>
        /\ \/ st'[p] = [st[p] EXCEPT !.conv = @ \cup {done[p] + 1}]
           \/ st'[p] = [st[p] EXCEPT !.vm[done[p] + 1] = created + 1]
    BY <1>10, <1>s, CellFacts, PhaseIndex DEF RunConvert, RunImport, Working
  <2>2. st[p].n # 0 /\ st'[p].n = st[p].n
    BY <1>s, <2>1 DEF StateType, MTypeOK
  <2>3. rec.cp["configure"] # "completed" /\ rec.phase # "rolled_back"
    BY <1>c, <2>1 DEF OrderInv, Running
  <2>4. Planless(st'[p])
    BY <2>2 DEF Planless
  <2> QED BY <1>p, <2>1, <2>3, <2>4
<1>11. CASE PhaseFails(p)
  <2> DEFINE ph == Order[at[p]]
             u == [st[p] EXCEPT !.conv = @ \ {done[p] + 1}]
             s == IF ph = "convert" THEN u ELSE st[p]
             t == Failed(s, ph)
  <2>1. /\ rec' = t /\ st'[p] = t /\ pc'[p] = "idle" /\ pc[p] = "work"
        /\ done[p] < st[p].n /\ UNCHANGED <<point, target, files>>
    BY <1>11, <1>s, CellFacts DEF PhaseFails, Working
  <2>2. st[p].n # 0
    BY <1>s, <2>1 DEF MTypeOK
  <2>3. /\ s \in StateType /\ ph \in PhaseNames /\ s.n = st[p].n /\ s.cp = st[p].cp
        /\ at[p] # 2 => s = st[p]
    <3>1. u \in StateType /\ u.n = st[p].n /\ u.cp = st[p].cp
      BY <1>s DEF StateType
    <3> QED BY <1>s, <3>1, OrderFacts, PhaseIndex DEF PhaseNames
  <2> HIDE DEF s
  <2>4. /\ t.phase = "failed" /\ SameWork(s, t)
        /\ t.cp["configure"] = "completed" => s.cp["configure"] = "completed"
    BY <1>s, <2>3, FailedFacts, FailedWork
  <2> HIDE DEF t
  <2>5. st[p].cp = rec.cp
    BY <2>1 DEF OrderInv, Running
  <2>6. Planless(t)
    BY <2>2, <2>3, <2>4 DEF Planless, SameWork
  <2>7. t.cp["configure"] = "completed" => Covers(point, t)
    BY <1>c, <2>1, <2>3, <2>4, <2>5, SameCover DEF SameWork, Running
  <2> QED BY <1>p, <2>1, <2>4, <2>6, <2>7
<1>12. CASE PhaseEnds(p)
  <2> DEFINE ph == Order[at[p]]
             s == Mark(st[p], ph, "completed")
  <2>1. /\ rec' = s /\ st'[p] = s /\ pc'[p] \in {"final", "start"} /\ pc[p] = "work"
        /\ UNCHANGED <<point, target, files>>
    BY <1>12, <1>s, CellFacts DEF PhaseEnds
  <2>2. ph \in Phases /\ "completed" \in Status
    BY <1>s, OrderFacts DEF Status
  <2>3. /\ SameWork(st[p], s) /\ s.phase = st[p].phase
        /\ ph # "configure" => s.cp["configure"] = st[p].cp["configure"]
    BY <1>s, <2>2, MarkFacts, MarkWork
  <2> HIDE DEF s
  <2>4. st[p].phase # "rolled_back" /\ st[p].cp = rec.cp
    BY <2>1 DEF OrderInv, Running
  <2>5. s.cp["configure"] = "completed" => at[p] \in {4, 5}
    BY <1>c, <1>s, <2>1, <2>3, <2>4, PhaseIndex
  <2>6. Planless(s) /\ (s.cp["configure"] = "completed" => Covers(point, s))
    BY <2>1, <2>3, <2>5, SameCover DEF SameWork, Planless
  <2> QED BY <1>p, <2>1, <2>3, <2>4, <2>6
<1>13. CASE Completes(p)
  <2> DEFINE s == [st[p] EXCEPT !.phase = "complete"]
  <2>1. /\ rec' = s /\ st'[p] = s /\ pc'[p] = "idle" /\ pc[p] = "final"
        /\ UNCHANGED <<point, target, files>>
    BY <1>13, <1>s, CellFacts DEF Completes
  <2>2. s.phase = "complete" /\ SameWork(st[p], s) /\ s.cp = st[p].cp
    BY <1>s, PhaseFacts, PhaseWork DEF PhaseNames
  <2> HIDE DEF s
  <2>3. st[p].cp = rec.cp
    BY <2>1 DEF OrderInv, Running
  <2>4. Planless(s) /\ (s.cp["configure"] = "completed" => Covers(point, s))
    BY <2>1, <2>2, <2>3, SameCover DEF SameWork, Planless, Running
  <2> QED BY <1>p, <2>1, <2>2, <2>4
<1>14. CASE RollbackLoads(p)
  <2>1. pc'[p] = "remove" /\ st'[p] = rec /\ UNCHANGED <<rec, point, target, files>>
    BY <1>14, <1>s, CellFacts DEF RollbackLoads
  <2> QED BY <1>p, <2>1 DEF Running
<1>15. CASE RollbackRemoves(p)
  <2>1. PICK off \in FailedCalls(rp[p].vms), bad \in FailedCalls(rp[p].vms) :
          target' = target \ (rp[p].vms \ bad) /\ Note(p, off \cup bad)
    BY <1>15 DEF RollbackRemoves
  <2>2. pc'[p] = "clean" /\ UNCHANGED <<rec, point, st, rp, files>>
    BY <1>15, <1>s, CellFacts DEF RollbackRemoves
  <2>3. ~errs'[p] => bad = {}
    BY <1>s, <2>1 DEF Note, MTypeOK
  <2>4. target' \subseteq target /\ (~errs'[p] => rp[p].vms \cap target' = {})
    BY <2>1, <2>3
  <2> QED BY <1>p, <2>2, <2>4 DEF Running
<1>16. CASE RollbackCleans(p)
  <2>1. PICK bad \in FailedCalls(rp[p].files \cap files) :
          files' = files \ (rp[p].files \ bad) /\ Note(p, bad)
    BY <1>16 DEF RollbackCleans
  <2>2. pc'[p] = "restore" /\ pc[p] = "clean" /\ UNCHANGED <<rec, point, st, rp, target>>
    BY <1>16, <1>s, CellFacts DEF RollbackCleans
  <2>3. ~errs'[p] => ~errs[p] /\ bad = {}
    BY <1>s, <2>1 DEF Note, MTypeOK
  <2>4. files' \subseteq files /\ (~errs'[p] => rp[p].files \cap files' = {})
    BY <2>1, <2>3
  <2> QED BY <1>p, <2>2, <2>3, <2>4 DEF Running
<1>17. CASE RollbackRestores(p)
  <2>1. PICK bad : Note(p, bad)
    BY <1>17 DEF RollbackRestores
  <2>2. pc'[p] = "save" /\ pc[p] = "restore" /\ UNCHANGED <<rec, point, st, rp, target, files>>
    BY <1>17, <1>s, CellFacts DEF RollbackRestores
  <2>3. ~errs'[p] => ~errs[p]
    BY <1>s, <2>1 DEF Note, MTypeOK
  <2> QED BY <1>p, <2>2, <2>3 DEF Running
<1>18. CASE RollbackSaves(p)
  <2> DEFINE ph == IF errs[p] THEN "failed" ELSE "rolled_back"
             s == [st[p] EXCEPT !.phase = ph]
  <2>1. /\ rec' = s /\ st'[p] = s /\ pc'[p] = "idle" /\ pc[p] = "save" /\ st[p] = rec
        /\ rp[p] = point /\ UNCHANGED <<point, target, files>>
    BY <1>18, <1>s, CellFacts DEF RollbackSaves, OrderInv, RollingBack
  <2>2. s.phase = ph /\ SameWork(st[p], s) /\ s.cp = st[p].cp
    BY <1>s, PhaseFacts, PhaseWork DEF PhaseNames
  <2>3. /\ ph = "rolled_back" => ~errs[p]
        /\ 1..st[p].n \subseteq Workloads
    BY <1>s DEF Workloads
  <2> HIDE DEF s, ph
  <2>4. Planless(s) /\ (s.cp["configure"] = "completed" => Covers(point, s))
    BY <2>1, <2>2, SameCover DEF SameWork, Planless
  <2>5. s.cp["configure"] = "completed" /\ s.phase = "rolled_back" =>
          (\A w \in 1..s.n : s.vm[w] \notin target) /\ s.conv \cap files = {}
    BY <1>s, <2>1, <2>2, <2>3, <2>4 DEF Covers, SameWork
  <2> QED BY <1>p, <2>1, <2>4, <2>5
<1> QED BY <1>0, <1>1, <1>2, <1>3, <1>4, <1>5, <1>6, <1>7, <1>8, <1>9, <1>10,
           <1>11, <1>12, <1>13, <1>14, <1>15, <1>16, <1>17, <1>18
        DEF MNext, RunPhase, RunWorkload, RollbackStep

-----------------------------------------------------------------------------
\* Theorems.

\* For every number of workloads and every bound on resumptions and rollbacks:
\* when the operations on a migration come one after another and it is executed
\* once, the power a source VM had at first stays in the stored recovery point
\* until the source has it again, through every fault, crash and resumption.
THEOREM SourcePowerKept ==
  ASSUME NEW p, Procs = {p}, MaxExecutes <= 1
  PROVE  MSpec => []SourcePowerRecoverable
<1>1. MTypeOK /\ PowerInv(p) => SourcePowerRecoverable
  <2> SUFFICES ASSUME PowerInv(p), NEW w \in Workloads, source[w] # orig[w]
               PROVE  point.taken /\ w <= point.n /\ point.power[w] = orig[w]
    BY DEF SourcePowerRecoverable
  <2>1. point.taken /\ point.n = N /\ point.power = orig
    BY DEF PowerInv
  <2> QED BY <2>1, MigrationAssumption DEF Workloads
<1>2. MInit => OrderInv(p) /\ PowerInv(p)
  BY OrderInit, PowerInit
<1>3. MTypeOK /\ CheckpointInv /\ [MNext]_mvars => CheckpointInv'
  BY CheckpointStep
<1>4. MTypeOK /\ CheckpointInv /\ OrderInv(p) /\ [MNext]_mvars => OrderInv(p)'
  BY OrderStep
<1>5. MTypeOK /\ OrderInv(p) /\ OrderInv(p)' /\ PowerInv(p) /\ [MNext]_mvars => PowerInv(p)'
  BY PowerStep
<1> QED BY <1>1, <1>2, <1>3, <1>4, <1>5, CheckpointInit, TypeCorrect, PTL DEF MSpec

\* For the same operation, a migration that Rollback recorded as rolled back
\* has given every source its first power, and, when it had got through the
\* configure phase, has left neither a VM nor a disk that its record names.
THEOREM RollbacksAreFaithful ==
  ASSUME NEW p, Procs = {p}, MaxExecutes <= 1
  PROVE  MSpec => []RollbackIsFaithful
<1>1. PowerInv(p) /\ ArtifactInv(p) => RollbackIsFaithful
  BY DEF PowerInv, ArtifactInv, RollbackIsFaithful, RollbackRestoresPower
<1>2. MInit => OrderInv(p) /\ PowerInv(p) /\ ArtifactInv(p)
  BY OrderInit, PowerInit, ArtifactInit
<1>3. MTypeOK /\ CheckpointInv /\ [MNext]_mvars => CheckpointInv'
  BY CheckpointStep
<1>4. MTypeOK /\ CheckpointInv /\ OrderInv(p) /\ [MNext]_mvars => OrderInv(p)'
  BY OrderStep
<1>5. MTypeOK /\ OrderInv(p) /\ OrderInv(p)' /\ PowerInv(p) /\ [MNext]_mvars => PowerInv(p)'
  BY PowerStep
<1>6. MTypeOK /\ CheckpointInv /\ OrderInv(p) /\ ArtifactInv(p) /\ [MNext]_mvars => ArtifactInv(p)'
  BY ArtifactStep
<1> QED BY <1>1, <1>2, <1>3, <1>4, <1>5, <1>6, CheckpointInit, TypeCorrect, PTL DEF MSpec
=============================================================================
