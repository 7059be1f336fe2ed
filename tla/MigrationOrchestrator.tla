------------------------ MODULE MigrationOrchestrator ------------------------
(***************************************************************************)
(* One cold migration, from its plan to its end: the phase machine of      *)
(* internal/migrate/orchestrator.go with its checkpoints (plan.go), the    *)
(* recovery points and the rollback of rollback.go, and the persistence of *)
(* runtime.go, as the API and the CLI drive them.                          *)
(*                                                                         *)
(* An operation (Execute, Resume, Rollback) works on a private copy of the *)
(* migration state and writes the whole copy to the store at each persist  *)
(* point.  Nothing serialises operations on the same migration: Procs      *)
(* holds as many as may run at once.  The two platforms are external; they *)
(* are the source VMs' power, the VMs created on the target and the        *)
(* converted disk files.  A workload has one disk.                         *)
(***************************************************************************)
EXTENDS Naturals, Sequences, FiniteSets

CONSTANTS Procs,           \* operations that may be in progress at once
          N,               \* workloads the spec selects, in plan order
          MaxExecutes,     \* bounds on the operations that are started
          MaxResumes,
          MaxRollbacks,
          ShutdownSource,  \* spec option shutdown_source
          VerifyBoot,      \* spec option verify_boot
          Faults,          \* BOOLEAN: may calls to the platforms fail?
          Crashes,         \* BOOLEAN: may an operation die or lose the store?
          MayMatchNothing  \* BOOLEAN: may a discovery select no workload?

ASSUME MigrationAssumption ==
  /\ N \in Nat \ {0}
  /\ {MaxExecutes, MaxResumes, MaxRollbacks} \subseteq Nat
  /\ {ShutdownSource, VerifyBoot, Faults, Crashes, MayMatchNothing} \subseteq BOOLEAN

VARIABLES
  rec,       \* the stored migration state
  point,     \* the stored recovery point
  pc, op,    \* where each operation is, and which one it is
  st,        \* its copy of the migration state
  at, done,  \* phase it runs, and the workloads it has finished in it
  rp, errs,  \* a rollback's recovery point, and whether it met an error
  source,    \* power of the source VMs
  orig,      \* their power before anything was executed (history)
  target,    \* VMs that exist on the target platform
  created,   \* number of VMs ever created there: the source of fresh ids
  files,     \* workloads whose converted disk file exists
  started    \* operations started so far, by kind

stored == <<rec, point>>
procs == <<pc, op, st, at, done, rp, errs>>
world == <<source, orig, target, created, files>>
mvars == <<stored, procs, world, started>>

Workloads == 1..N

\* runExecution's phases, in order.
Order == <<"export", "convert", "import", "configure", "verify">>

Phases == {"plan", "export", "convert", "import", "configure", "verify"}

Power == {"on", "off"}

\* newMigrationState and initializeCheckpoints.  `vm' and `conv' are the
\* target VM (0: none) and the converted disk that each workload records.
NewState ==
  [phase |-> "plan", cp |-> [ph \in Phases |-> "pending"], planned |-> FALSE,
   n |-> 0, vm |-> [w \in Workloads |-> 0], conv |-> {},
   power |-> [w \in Workloads |-> "off"]]

NotStored == [NewState EXCEPT !.phase = "none"]

NoPoint ==
  [taken |-> FALSE, n |-> 0, vms |-> {}, files |-> {},
   power |-> [w \in Workloads |-> "off"]]

MInit ==
  /\ rec = NotStored /\ point = NoPoint
  /\ pc = [p \in Procs |-> "idle"] /\ op = [p \in Procs |-> "execute"]
  /\ st = [p \in Procs |-> NewState]
  /\ at = [p \in Procs |-> 1] /\ done = [p \in Procs |-> 0]
  /\ rp = [p \in Procs |-> NoPoint] /\ errs = [p \in Procs |-> FALSE]
  /\ source \in [Workloads -> Power] /\ orig = source
  /\ target = {} /\ created = 0 /\ files = {}
  /\ started = [o \in {"execute", "resume", "rollback"} |-> 0]

-----------------------------------------------------------------------------
\* Helpers.

Mark(s, ph, status) == [s EXCEPT !.cp[ph] = status]

\* failState: the phase becomes failed and so does the checkpoint it names.
\* A phase without a checkpoint ("failed") only gets a diagnostic entry.
Failed(s, ph) ==
  [(IF ph \in Phases THEN Mark(s, ph, "failed") ELSE s) EXCEPT !.phase = "failed"]

\* Mutant: a phase that was running when its operation died counts as done.
IncompleteUnlessBegun(s) ==
  {i \in 1..5 : s.cp[Order[i]] \notin {"completed", "running"}}

\* nextPhaseStartIndex, 0 when every phase is completed.
Incomplete(s) == {i \in 1..5 : s.cp[Order[i]] # "completed"}

NextPhase(s) ==
  IF Incomplete(s) = {} THEN 0
  ELSE CHOOSE i \in Incomplete(s) : \A j \in Incomplete(s) : i <= j

\* Mutant: the point records the power the source has now.
PointOfPlatform(s) ==
  [taken |-> TRUE, n |-> s.n,
   vms |-> {s.vm[w] : w \in 1..s.n} \ {0},
   files |-> s.conv \cap 1..s.n,
   power |-> source]

\* What CreateRecoveryPoint writes: all it knows is what the state records.
PointOf(s) ==
  [taken |-> TRUE, n |-> s.n,
   vms |-> {s.vm[w] : w \in 1..s.n} \ {0},
   files |-> s.conv \cap 1..s.n,
   power |-> s.power]

Goto(p, l) == pc' = [pc EXCEPT ![p] = l]

Keep(p, s) == st' = [st EXCEPT ![p] = s]

\* persistMigrationState, after which the operation goes on at l.
Persist(p, s, l) == rec' = s /\ Keep(p, s) /\ Goto(p, l)

Fail(p, ph) == Persist(p, Failed(st[p], ph), "idle")

\* BuildExecutionPlan and buildWorkloadMigrations on the n matched VMs.
Planned(s, n) ==
  [s EXCEPT !.planned = TRUE, !.n = n,
            !.power = [w \in Workloads |-> IF w <= n THEN source[w] ELSE "off"]]

Matches == IF MayMatchNothing THEN {0, N} ELSE {N}

-----------------------------------------------------------------------------
\* Execute and Resume up to the first phase.

Begin(p, o, bound) ==
  /\ pc[p] = "idle" /\ started[o] < bound
  /\ started' = [started EXCEPT ![o] = @ + 1]
  /\ op' = [op EXCEPT ![p] = o]

\* The record of an earlier run under the same id is not read.
StartExecute(p) ==
  /\ Begin(p, "execute", MaxExecutes)
  /\ Keep(p, NewState) /\ Goto(p, "discover")
  /\ UNCHANGED <<stored, at, done, rp, errs, world>>

\* A complete or rolled back migration is not resumed.
StartResume(p) ==
  /\ rec.phase \notin {"none", "complete", "rolled_back"}
  /\ Begin(p, "resume", MaxResumes)
  /\ Keep(p, rec) /\ Goto(p, "discover")
  /\ UNCHANGED <<stored, at, done, rp, errs, world>>

\* discoverInventories fails, or the plan cannot be built.
DiscoverFails(p) ==
  /\ Faults /\ pc[p] = "discover"
  /\ \/ Fail(p, IF op[p] = "resume" THEN st[p].phase ELSE "plan")
     \/ ~st[p].planned /\ Fail(p, "plan")
  /\ UNCHANGED <<point, op, at, done, rp, errs, world, started>>

\* Execute persists the plan; a dry run ends here, and so does a run outside
\* its window or without approval.
ExecutePlans(p) ==
  /\ pc[p] = "discover" /\ op[p] = "execute"
  /\ \E n \in Matches :
       LET s == Planned(st[p], n)
       IN IF n = 0
          THEN Persist(p, Failed(s, "plan"), "idle")
          ELSE \E l \in {"idle", "begin"} : Persist(p, Mark(s, "plan", "completed"), l)
  /\ UNCHANGED <<point, op, at, done, rp, errs, world, started>>

\* Resume plans only what is missing from the stored state, and starts at the
\* first phase that is not completed.
ResumeContinues(p) ==
  /\ pc[p] = "discover" /\ op[p] = "resume"
  /\ \E n \in Matches :
       LET s == IF st[p].n = 0 THEN Planned(st[p], n)
                ELSE [st[p] EXCEPT !.planned = TRUE]
       IN \/ Persist(p, s, "idle") /\ UNCHANGED at
          \/ /\ NextPhase(s) = 0
             /\ Persist(p, [s EXCEPT !.phase = "complete"], "idle")
             /\ UNCHANGED at
          \/ /\ NextPhase(s) # 0
             /\ Keep(p, s) /\ Goto(p, "start")
             /\ at' = [at EXCEPT ![p] = NextPhase(s)]
             /\ UNCHANGED rec
  /\ UNCHANGED <<point, op, done, rp, errs, world, started>>

\* CreateRecoveryPoint, once before the first phase and once in each phase.
TakePoint(p) ==
  /\ pc[p] \in {"begin", "point"}
  /\ point' = PointOf(st[p])
  /\ Goto(p, IF pc[p] = "begin" THEN "start" ELSE "work")
  /\ at' = [at EXCEPT ![p] = IF pc[p] = "begin" THEN 1 ELSE @]
  /\ done' = [done EXCEPT ![p] = 0]
  /\ UNCHANGED <<rec, op, st, rp, errs, world, started>>

\* A snapshot of a source VM or the write of the point fails.
TakePointFails(p) ==
  /\ Faults /\ pc[p] \in {"begin", "point"}
  /\ Fail(p, IF pc[p] = "begin" THEN "plan" ELSE Order[at[p]])
  /\ UNCHANGED <<point, op, at, done, rp, errs, world, started>>

-----------------------------------------------------------------------------
\* runExecution.

SetPhase(p) ==
  /\ pc[p] = "start"
  /\ LET ph == Order[at[p]]
     IN Persist(p, Mark([st[p] EXCEPT !.phase = ph], ph, "running"), "point")
  /\ UNCHANGED <<point, op, at, done, rp, errs, world, started>>

\* The workload that phase ph of operation p handles next.
Working(p, ph) ==
  /\ pc[p] = "work" /\ Order[at[p]] = ph
  /\ done[p] < st[p].n

Handled(p) == done' = [done EXCEPT ![p] = @ + 1]

\* PowerOffVM is called when the recorded power is on.
PowersOff(p, w) == ShutdownSource /\ st[p].power[w] = "on"

RunExport(p) ==
  /\ Working(p, "export")
  /\ LET w == done[p] + 1
     IN source' = IF PowersOff(p, w) THEN [source EXCEPT ![w] = "off"] ELSE source
  /\ Handled(p)
  /\ UNCHANGED <<stored, pc, op, st, at, rp, errs, orig, target, created, files, started>>

\* ConvertDisk refuses an existing target file.
RunConvert(p) ==
  /\ Working(p, "convert")
  /\ LET w == done[p] + 1
     IN /\ w \notin files
        /\ files' = files \cup {w}
        /\ Keep(p, [st[p] EXCEPT !.conv = @ \cup {w}])
  /\ Handled(p)
  /\ UNCHANGED <<stored, pc, op, at, rp, errs, source, orig, target, created, started>>

\* Mutant: the id of the new VM is not recorded.
RunImportUnrecorded(p) ==
  /\ Working(p, "import")
  /\ created' = created + 1
  /\ target' = target \cup {created + 1}
  /\ Handled(p)
  /\ UNCHANGED <<stored, pc, op, st, at, rp, errs, source, orig, files, started>>

RunImport(p) ==
  /\ Working(p, "import")
  /\ created' = created + 1
  /\ target' = target \cup {created + 1}
  /\ Keep(p, [st[p] EXCEPT !.vm[done[p] + 1] = created + 1])
  /\ Handled(p)
  /\ UNCHANGED <<stored, pc, op, at, rp, errs, source, orig, files, started>>

\* runConfigure, and runVerify when VerifyBoot is set, change the target VM's
\* networks and power only.
RunOnTarget(p) ==
  /\ \/ Working(p, "configure")
     \/ VerifyBoot /\ Working(p, "verify")
  /\ Handled(p)
  /\ UNCHANGED <<stored, pc, op, st, at, rp, errs, world, started>>

\* A call for the next workload fails.  An export may already have powered
\* its source off; a convert has already reset the disk the workload records.
PhaseFails(p) ==
  /\ \E ph \in Phases : Working(p, ph) /\ (ph = "verify" => VerifyBoot)
  /\ LET w == done[p] + 1
         ph == Order[at[p]]
     IN /\ Faults \/ (ph = "convert" /\ w \in files)
        /\ Persist(p, Failed(IF ph = "convert"
                             THEN [st[p] EXCEPT !.conv = @ \ {w}] ELSE st[p], ph),
                   "idle")
        /\ \/ UNCHANGED source
           \/ ph = "export" /\ PowersOff(p, w) /\ source' = [source EXCEPT ![w] = "off"]
  /\ UNCHANGED <<point, op, at, done, rp, errs, orig, target, created, files, started>>

PhaseEnds(p) ==
  /\ pc[p] = "work"
  /\ done[p] = st[p].n \/ (Order[at[p]] = "verify" /\ ~VerifyBoot)
  /\ Persist(p, Mark(st[p], Order[at[p]], "completed"),
             IF at[p] = 5 THEN "final" ELSE "start")
  /\ at' = [at EXCEPT ![p] = IF @ = 5 THEN 5 ELSE @ + 1]
  /\ UNCHANGED <<point, op, done, rp, errs, world, started>>

Completes(p) ==
  /\ pc[p] = "final"
  /\ Persist(p, [st[p] EXCEPT !.phase = "complete"], "idle")
  /\ UNCHANGED <<point, op, at, done, rp, errs, world, started>>

-----------------------------------------------------------------------------
\* Rollback: works from the recovery point, whatever phase the record is in.

StartRollback(p) ==
  /\ point.taken /\ rec.phase # "none"
  /\ Begin(p, "rollback", MaxRollbacks)
  /\ rp' = [rp EXCEPT ![p] = point]
  /\ errs' = [errs EXCEPT ![p] = FALSE]
  /\ Goto(p, "load")
  /\ UNCHANGED <<stored, st, at, done, world>>

RollbackLoads(p) ==
  /\ pc[p] = "load"
  /\ Keep(p, rec) /\ Goto(p, "remove")
  /\ UNCHANGED <<stored, op, at, done, rp, errs, world, started>>

\* The part of a set of calls that fails.
FailedCalls(S) == IF Faults THEN SUBSET S ELSE {{}}

Note(p, bad) == errs' = [errs EXCEPT ![p] = @ \/ bad # {}]

\* Each VM is powered off, then removed whether or not that worked.
RollbackRemoves(p) ==
  /\ pc[p] = "remove"
  /\ \E off \in FailedCalls(rp[p].vms), bad \in FailedCalls(rp[p].vms) :
       target' = target \ (rp[p].vms \ bad) /\ Note(p, off \cup bad)
  /\ Goto(p, "clean")
  /\ UNCHANGED <<stored, op, st, at, done, rp, source, orig, created, files, started>>

\* A file that is already gone is no error.
RollbackCleans(p) ==
  /\ pc[p] = "clean"
  /\ \E bad \in FailedCalls(rp[p].files \cap files) :
       files' = files \ (rp[p].files \ bad) /\ Note(p, bad)
  /\ Goto(p, "restore")
  /\ UNCHANGED <<stored, op, st, at, done, rp, source, orig, target, created, started>>

\* Mutant: the last source VM of the point is passed over.
RollbackRestoresShort(p) ==
  /\ pc[p] = "restore"
  /\ \E bad \in FailedCalls(1..rp[p].n) :
       /\ source' = [w \in Workloads |-> IF w \in (1..(rp[p].n - 1)) \ bad
                                          THEN rp[p].power[w] ELSE source[w]]
       /\ Note(p, bad)
  /\ Goto(p, "save")
  /\ UNCHANGED <<stored, op, st, at, done, rp, orig, target, created, files, started>>

RollbackRestores(p) ==
  /\ pc[p] = "restore"
  /\ \E bad \in FailedCalls(1..rp[p].n) :
       /\ source' = [w \in Workloads |-> IF w \in (1..rp[p].n) \ bad
                                          THEN rp[p].power[w] ELSE source[w]]
       /\ Note(p, bad)
  /\ Goto(p, "save")
  /\ UNCHANGED <<stored, op, st, at, done, rp, orig, target, created, files, started>>

\* Errors leave the migration failed, its checkpoints as they were.
RollbackSaves(p) ==
  /\ pc[p] = "save"
  /\ Persist(p, [st[p] EXCEPT !.phase = IF errs[p] THEN "failed" ELSE "rolled_back"],
             "idle")
  /\ UNCHANGED <<point, op, at, done, rp, errs, world, started>>

-----------------------------------------------------------------------------
\* The process dies, the operation's context ends or the store rejects the
\* next write: the operation is over and the store keeps what it has.
Abandon(p) ==
  /\ Crashes /\ pc[p] # "idle"
  /\ Goto(p, "idle")
  /\ UNCHANGED <<stored, op, st, at, done, rp, errs, world, started>>

RunWorkload(p) == RunExport(p) \/ RunConvert(p) \/ RunImport(p) \/ RunOnTarget(p)

RunPhase(p) ==
  \/ TakePoint(p) \/ TakePointFails(p) \/ SetPhase(p) \/ RunWorkload(p)
  \/ PhaseFails(p) \/ PhaseEnds(p) \/ Completes(p)

RollbackStep(p) ==
  \/ RollbackLoads(p) \/ RollbackRemoves(p) \/ RollbackCleans(p)
  \/ RollbackRestores(p) \/ RollbackSaves(p)

MNext ==
  \E p \in Procs :
    \/ StartExecute(p) \/ StartResume(p) \/ StartRollback(p)
    \/ DiscoverFails(p) \/ ExecutePlans(p) \/ ResumeContinues(p)
    \/ RunPhase(p) \/ RollbackStep(p) \/ Abandon(p)

MSpec == MInit /\ [][MNext]_mvars

-----------------------------------------------------------------------------
\* Properties.

Status == {"pending", "running", "completed", "failed"}

StateType ==
  [phase: Phases \cup {"none", "complete", "failed", "rolled_back"},
   cp: [Phases -> Status], planned: BOOLEAN, n: {0, N},
   vm: [Workloads -> Nat], conv: SUBSET Workloads, power: [Workloads -> Power]]

PointType ==
  [taken: BOOLEAN, n: {0, N}, vms: SUBSET Nat, files: SUBSET Workloads,
   power: [Workloads -> Power]]

\* Types of the migration state: the phase index stays within the five phases,
\* a target VM was created by an import, and every record has the fields of
\* MigrationState and RecoveryPoint.
MTypeOK ==
  /\ rec \in StateType /\ point \in PointType
  /\ pc \in [Procs -> {"idle", "discover", "begin", "start", "point", "work",
                        "final", "load", "remove", "clean", "restore", "save"}]
  /\ op \in [Procs -> {"execute", "resume", "rollback"}]
  /\ st \in [Procs -> StateType]
  /\ at \in [Procs -> 1..5] /\ done \in [Procs -> 0..N]
  /\ rp \in [Procs -> PointType] /\ errs \in [Procs -> BOOLEAN]
  /\ source \in [Workloads -> Power] /\ orig \in [Workloads -> Power]
  /\ created \in Nat /\ target \subseteq 1..created
  /\ files \subseteq Workloads
  /\ started \in [{"execute", "resume", "rollback"} -> Nat]

\* The checkpoints of a state are a completed prefix, at most one phase that
\* is running or failed, and pending phases behind it.
Prefix(s) ==
  \A i \in 1..4 : s.cp[Order[i + 1]] # "pending" => s.cp[Order[i]] = "completed"

\* The stored checkpoints never show a phase as begun unless all phases before
\* it are completed, and a complete migration has all of them completed,
\* however executions, resumptions and rollbacks of it overlap, fail or die:
\* nextPhaseStartIndex, which takes the first incomplete phase, relies on it.
CheckpointPrefix ==
  /\ Prefix(rec)
  /\ rec.phase = "complete" => \A i \in 1..5 : rec.cp[Order[i]] = "completed"

\* However operations on one migration overlap, its record is one that Resume can
\* go by: well formed, with checkpoints that are a completed prefix.
RecordIsConsistent ==
  /\ MTypeOK
  /\ CheckpointPrefix

\* A checkpoint that is recorded as completed is backed by what the phase had
\* to record: each workload's converted disk, each workload's target VM.
\* A resumption that skips the phase works with these.
CheckpointsAreBacked ==
  /\ rec.cp["convert"] = "completed" => rec.conv = 1..rec.n
  /\ rec.cp["import"] = "completed" => \A w \in 1..rec.n : rec.vm[w] # 0

\* A migration recorded as complete is one: once no operation is in progress,
\* each workload of its spec has its VM on the target, and the source VMs are
\* off if the spec asked for it.
CompleteMeansMigrated ==
  rec.phase = "complete" /\ (\A p \in Procs : pc[p] = "idle") =>
    /\ rec.n = N
    /\ \A w \in Workloads : rec.vm[w] \in target
    /\ ShutdownSource => \A w \in Workloads : source[w] = "off"

\* Whatever faults and crashes executions and resumptions met on the way, the
\* migration they record as complete is one as long as nobody rolls it back.
ResumedRunsMigrate ==
  started["rollback"] = 0 => CompleteMeansMigrated

\* The power a source VM had before the migration touched it can be found in
\* the stored recovery point as long as it differs from the VM's power now:
\* the point is written before the first power-off and survives every crash,
\* failure and resumption after it.
SourcePowerRecoverable ==
  \A w \in Workloads :
    source[w] # orig[w] => point.taken /\ w <= point.n /\ point.power[w] = orig[w]

\* A migration that was rolled back after its configure phase has nothing
\* left of what its record names: the target VMs and the converted disks are
\* gone.
RollbackUndoesRecord ==
  rec.phase = "rolled_back" /\ rec.cp["configure"] = "completed" =>
    /\ \A w \in 1..rec.n : rec.vm[w] \notin target
    /\ rec.conv \cap files = {}

\* A rolled back migration has given each source VM the power it had before
\* its first execution, whatever failed, died or was resumed in between.
RollbackRestoresPower ==
  rec.phase = "rolled_back" => source = orig

\* A migration that Rollback recorded as rolled back has its sources as they were,
\* and, if it got as far as configuring, nothing of its record on the target.
RollbackIsFaithful ==
  /\ RollbackUndoesRecord
  /\ RollbackRestoresPower

\* A rolled back migration leaves no target VM and no converted disk behind.
RollbackRemovesArtifacts ==
  rec.phase = "rolled_back" => target = {} /\ files = {}
=============================================================================
