------------------------ MODULE WorkspaceJobsProofs ------------------------
(***************************************************************************)
(* Proofs about WorkspaceJobs, for every set of jobs and tenants, any       *)
(* number of restarts and every combination of deadlines, cancel requests   *)
(* and dropped requests: the job records are true, open jobs are held by    *)
(* somebody, and a terminal record is final.                                *)
(***************************************************************************)
EXTENDS WorkspaceJobs, TLAPS

Serving == mode \in {"up", "recovering"}
InExecutor(j) == job[j] \in {"submitted", "queued", "started"}

\* The executor's queue holds jobs that it calls queued, each of them once.
QueueInv ==
  /\ job \in [Tasks -> JobStates]
  /\ waiting \in Seq(Tasks)
  /\ closed \in BOOLEAN
  /\ \A i \in 1..Len(waiting) : job[waiting[i]] = "queued"
  /\ \A i, k \in 1..Len(waiting) : waiting[i] = waiting[k] => i = k

\* A process that is down may be started again, a closed executor is not serving,
\* and without the workspace there are no records.
ProcessInv ==
  /\ mode = "down" => restarts < MaxRestarts
  /\ closed => ~Serving
  /\ ~ws => \A j \in Tasks : rec[j] = "absent"

\* Handler, executor, worker, registry, recovery and cancel request of one job are
\* at places that match.
PlacesInv(j) ==
  /\ create[j] \in {"idle", "enqueue", "reenqueue"} <=> job[j] = "new"
  /\ create[j] \in {"submitted", "resubmitted"} <=> job[j] = "submitted"
  /\ create[j] \in {"failing", "refailing"} => job[j] = "refused"
  /\ run[j] # "none" <=> job[j] = "started"
  /\ j \in handle => InExecutor(j)
  /\ j \in todo => create[j] = "idle" /\ cancel[j] = "idle" /\ mode \in {"recovering", "down"}
  /\ cancel[j] \in {"reread", "overwrite"} => j \in exposed

\* Somebody is going to write the record and takes it for unfinished.
Pending(j) ==
  \/ create[j] \in {"enqueue", "reenqueue", "failing", "refailing"}
  \/ job[j] \in {"submitted", "queued"}
  \/ run[j] \in {"load", "check", "begin", "commit", "exec"}
  \/ j \in todo

\* What the record says: a result before success, and no terminal status under
\* somebody who would overwrite it.
RecordInv(j) ==
  /\ rec[j] = "succeeded" \/ wr[j] = "succeeded" => j \in applied
  /\ Pending(j) => ~Terminal(j) \/ j \in exposed

\* While the process serves: contexts die by deadline or cancel request only, and
\* whoever drops an open record leaves an exposed job.
HeldInv(j) ==
  Serving =>
    /\ InExecutor(j) => j \in (IF j \in dead THEN exposed ELSE handle)
    /\ run[j] = "leave" => ~Open(j) \/ j \in exposed
    /\ Open(j) => Owned(j) \/ j \in exposed \cup todo

JInv ==
  /\ JTypeOK /\ QueueInv /\ ProcessInv
  /\ \A j \in Tasks : PlacesInv(j) /\ RecordInv(j) /\ HeldInv(j)

-----------------------------------------------------------------------------
(* The invariant holds initially and every step keeps it.                   *)

\* No job exists initially.
LEMMA InitInv == JInit => JInv
<1> SUFFICES ASSUME JInit PROVE JInv
  OBVIOUS
<1>1. JTypeOK /\ QueueInv /\ ProcessInv
  <2>1. ws \in BOOLEAN /\ ws /\ closed \in BOOLEAN /\ ~closed
    BY DEF JInit, QInit
  <2>2. mode = "up" /\ restarts \in 0..MaxRestarts
    BY JobsAssumption DEF JInit
  <2>3. /\ job = [t \in Tasks |-> "new"] /\ waiting = <<>>
        /\ rec = [j \in Tasks |-> "absent"] /\ applied = {} /\ exposed = {}
        /\ create = [j \in Tasks |-> "idle"] /\ cancel = [j \in Tasks |-> "idle"]
        /\ run = [j \in Tasks |-> "none"] /\ wr = [j \in Tasks |-> "running"]
        /\ handle = {} /\ dead = {} /\ todo = {}
    BY DEF JInit, QInit
  <2>4. QED
    BY <2>1, <2>2, <2>3 DEF JTypeOK, QueueInv, ProcessInv, Serving, JobStates
<1>2. \A j \in Tasks : PlacesInv(j) /\ RecordInv(j) /\ HeldInv(j)
  BY DEF JInit, QInit, PlacesInv, RecordInv, HeldInv, Pending, Owned, Serving,
         InExecutor, Open, Terminal
<1>3. QED
  BY <1>1, <1>2 DEF JInv

\* A request arrives.
LEMMA RequestInv == ASSUME NEW k \in Tasks, JInv, RequestStep(k) PROVE JInv'
<1> USE DEF JInv, JTypeOK, QueueInv, ProcessInv, PlacesInv, RecordInv, HeldInv, Pending,
            Owned, Serving, InExecutor, Open, Terminal, JobStates, store, proc, qvars
<1>1. CASE CreateJob(k)
  BY <1>1 DEF CreateJob, SaveJob, CanSave
<1>2. CASE CancelReads(k)
  BY <1>2 DEF CancelReads
<1>3. QED
  BY <1>1, <1>2 DEF RequestStep

\* A handler, a cancel request or the recovery goes on.
LEMMA HandlerInv == ASSUME NEW k \in Tasks, JInv, HandlerStep(k) PROVE JInv'
<1> USE DEF JInv, JTypeOK, QueueInv, ProcessInv, PlacesInv, RecordInv, HeldInv, Pending,
            Owned, Serving, InExecutor, Open, Terminal, JobStates, store, proc, qvars
<1>1. CASE SubmitJob(k)
  BY <1>1 DEF SubmitJob, Submit
<1>2. CASE JobAdmitted(k)
  BY <1>2 DEF JobAdmitted, Admit
<1>3. CASE JobRefused(k)
  BY <1>3 DEF JobRefused, Refuse
<1>4. CASE RecordRefusal(k)
  BY <1>4 DEF RecordRefusal, SaveJob, CanSave
<1>5. CASE CancelSignals(k)
  BY <1>5 DEF CancelSignals
<1>6. CASE CancelRereads(k)
  BY <1>6 DEF CancelRereads
<1>7. CASE CancelOverwrites(k)
  BY <1>7 DEF CancelOverwrites, SaveJob, CanSave
<1>8. CASE RecoverJob(k)
  BY <1>8 DEF RecoverJob, SaveJob, CanSave
<1>9. QED
  BY <1>1, <1>2, <1>3, <1>4, <1>5, <1>6, <1>7, <1>8 DEF HandlerStep

\* The worker goes on.
LEMMA WorkerInv == ASSUME NEW k \in Tasks, JInv, RunStep(k) PROVE JInv'
<1> USE DEF JInv, JTypeOK, QueueInv, ProcessInv, PlacesInv, RecordInv, HeldInv, Pending,
            Owned, Serving, InExecutor, Open, Terminal, JobStates, store, proc, qvars
<1>1. CASE RunLoads(k)
  BY <1>1 DEF RunLoads, Goto
<1>2. CASE RunChecks(k)
  BY <1>2 DEF RunChecks, SaveJob, CanSave, Goto
<1>3. CASE SaveBegins(k)
  BY <1>3 DEF SaveBegins, Goto
<1>4. CASE SaveCommits(k)
  BY <1>4 DEF SaveCommits, SaveJob, CanSave, Goto
<1>5. CASE ExecSucceeds(k)
  BY <1>5 DEF ExecSucceeds, Goto
<1>6. CASE ExecFails(k)
  BY <1>6 DEF ExecFails, Goto
<1>7. CASE ExecPanics(k)
  BY <1>7 DEF ExecPanics, SaveJob, CanSave, Goto
<1>8. CASE RunLeaves(k)
  BY <1>8 DEF RunLeaves, Finish, Goto
<1>9. QED
  BY <1>1, <1>2, <1>3, <1>4, <1>5, <1>6, <1>7, <1>8 DEF RunStep

\* A context dies or a client goes away.
LEMMA ContextInv == ASSUME NEW k \in Tasks, JInv, Deadline(k) \/ CancelAborts(k) \/ StopReachesTask(k) PROVE JInv'
<1> USE DEF JInv, JTypeOK, QueueInv, ProcessInv, PlacesInv, RecordInv, HeldInv, Pending,
            Owned, Serving, InExecutor, Open, Terminal, JobStates, store, proc, qvars
<1>1. CASE Deadline(k)
  BY <1>1 DEF Deadline
<1>2. CASE CancelAborts(k)
  BY <1>2 DEF CancelAborts
<1>3. CASE StopReachesTask(k)
  BY <1>3 DEF StopReachesTask
<1>4. QED
  BY <1>1, <1>2, <1>3

\* The workspace is deleted: no record is left to be unfinished.
LEMMA DeleteInv == ASSUME JInv, DeleteWorkspace PROVE JInv'
<1>1. JTypeOK' /\ QueueInv' /\ ProcessInv'
  <2>1. ws' \in BOOLEAN /\ ~ws' /\ rec' = [j \in Tasks |-> "absent"]
    BY DEF DeleteWorkspace
  <2>2. UNCHANGED <<job, waiting, closed, mode, restarts, applied, exposed, create, handle, dead,
                    run, wr, cancel, todo>>
    BY DEF DeleteWorkspace, qvars, proc
  <2>3. QED
    BY <2>1, <2>2 DEF JInv, JTypeOK, QueueInv, ProcessInv, Serving
<1>2. \A j \in Tasks : rec'[j] = "absent"
  BY DEF DeleteWorkspace
<1>3. \A j \in Tasks : PlacesInv(j)' /\ RecordInv(j)' /\ HeldInv(j)'
  BY <1>2 DEF JInv, PlacesInv, RecordInv, HeldInv, Pending, Owned, Serving, InExecutor,
              Open, Terminal, DeleteWorkspace, qvars, proc
<1>4. QED
  BY <1>1, <1>3 DEF JInv

\* A new process: nothing is left but the records, and the unfinished ones are
\* listed.
LEMMA RestartInv == ASSUME JInv, Restart PROVE JInv'
<1>1. JTypeOK' /\ QueueInv' /\ ProcessInv'
  <2>1. restarts' \in 0..MaxRestarts /\ mode' = "recovering"
    BY JobsAssumption DEF JInv, JTypeOK, ProcessInv, Restart
  <2>2. closed' \in BOOLEAN /\ ~closed' /\ UNCHANGED <<ws, rec, applied>>
    BY DEF Restart
  <2>3. /\ job' = [j \in Tasks |-> "new"] /\ waiting' = <<>>
        /\ create' = [j \in Tasks |-> "idle"] /\ cancel' = [j \in Tasks |-> "idle"]
        /\ run' = [j \in Tasks |-> "none"] /\ wr' = [j \in Tasks |-> "running"]
        /\ handle' = {} /\ dead' = {} /\ exposed' = {} /\ todo' = {j \in Tasks : Open(j)}
    BY DEF Restart
  <2>4. QED
    BY <2>1, <2>2, <2>3 DEF JInv, JTypeOK, QueueInv, ProcessInv, Serving, JobStates
<1>2. ASSUME NEW j \in Tasks PROVE PlacesInv(j)' /\ RecordInv(j)' /\ HeldInv(j)'
  <2>1. /\ job'[j] = "new" /\ create'[j] = "idle" /\ cancel'[j] = "idle"
        /\ run'[j] = "none" /\ wr'[j] = "running" /\ handle' = {} /\ mode' = "recovering"
        /\ rec' = rec /\ applied' = applied /\ (j \in todo' <=> Open(j))
    BY <1>2 DEF Restart
  <2>2. QED
    BY <1>2, <2>1 DEF JInv, JTypeOK, PlacesInv, RecordInv, HeldInv, Pending, Owned, Serving,
                      InExecutor, Open, Terminal
<1>3. QED
  BY <1>1, <1>2 DEF JInv

\* The executor starts or drops jobs, the process stops or ends.
LEMMA ProcessStepInv == ASSUME JInv, RunStarts \/ Stop \/ DropQueued \/ RecoveryEnds \/ ProcessEnds PROVE JInv'
<1> USE DEF JInv, JTypeOK, QueueInv, ProcessInv, PlacesInv, RecordInv, HeldInv, Pending,
            Owned, Serving, InExecutor, Open, Terminal, JobStates, store, proc, qvars
<1>1. CASE RunStarts
  BY <1>1 DEF RunStarts, Start
<1>2. CASE Stop
  BY <1>2 DEF Stop, Close
<1>3. CASE DropQueued
  BY <1>3 DEF DropQueued, DropAll
<1>4. CASE RecoveryEnds
  BY <1>4 DEF RecoveryEnds
<1>5. CASE ProcessEnds
  BY <1>5 DEF ProcessEnds
<1>6. QED
  BY <1>1, <1>2, <1>3, <1>4, <1>5

\* Every step of handlers, workers and processes keeps the invariant.
LEMMA StepInv == JInv /\ [JNext]_jvars => JInv'
<1> SUFFICES ASSUME JInv, [JNext]_jvars PROVE JInv'
  OBVIOUS
<1>1. CASE UNCHANGED jvars
  BY <1>1 DEF jvars, qvars, store, proc, JInv, JTypeOK, QueueInv, ProcessInv, PlacesInv,
              RecordInv, HeldInv, Pending, Owned, Serving, InExecutor, Open, Terminal
<1>2. QED
  BY <1>1, RequestInv, HandlerInv, WorkerInv, ContextInv, DeleteInv, RestartInv,
     ProcessStepInv DEF JNext

-----------------------------------------------------------------------------
(* The theorems.                                                            *)

\* The invariant holds throughout.
LEMMA JobsInvariant == JSpec => []JInv
  BY InitInv, StepInv, PTL DEF JSpec

\* Whatever handlers, workers, cancel requests, deadlines and restarts do: a job
\* recorded as succeeded has its result in the workspace, and the jobs of a deleted
\* workspace stay deleted.
THEOREM RecordsAreTrue == JSpec => []JobRecordsAreTrue
<1>1. JInv => JobRecordsAreTrue
  BY DEF JInv, ProcessInv, RecordInv, JobRecordsAreTrue, SucceededWasApplied,
         DeletedStaysDeleted
<1>2. QED
  BY <1>1, JobsInvariant, PTL

\* While the server serves, every open record has somebody who will complete it or is
\* exposed, and the registry holds exactly the cancel functions that are of use.
THEOREM OpenJobsHeld == JSpec => []OpenJobsAreHeld
<1>1. JInv => StrandedJobsAreExposed
  BY DEF JInv, HeldInv, PlacesInv, Serving, StrandedJobsAreExposed
<1>2. JInv => CancelHandlesMatch
  BY DEF JInv, JTypeOK, HeldInv, PlacesInv, InExecutor, Serving, CancelHandlesMatch
<1>3. QED
  BY <1>1, <1>2, JobsInvariant, PTL DEF OpenJobsAreHeld

\* No step of a handler, a worker, the recovery or a new process overwrites a terminal
\* record, except by a cancel request or a deadline of the job in this process.
THEOREM TerminalStays == JSpec => TerminalIsFinal
<1>1. JInv /\ [JNext]_jvars =>
        [\A j \in Tasks : Terminal(j) /\ j \notin exposed => rec'[j] \in {rec[j], "absent"}]_jvars
  <2> SUFFICES ASSUME JInv, JNext, NEW j \in Tasks, Terminal(j), j \notin exposed
               PROVE  rec'[j] \in {rec[j], "absent"}
    OBVIOUS
  <2>1. ASSUME NEW k \in Tasks, NEW status, SaveJob(k, status), k = j => Pending(k)
        PROVE  rec'[j] \in {rec[j], "absent"}
    BY <2>1 DEF JInv, JTypeOK, RecordInv, SaveJob
  <2>2. CASE UNCHANGED rec
    BY <2>2
  <2>3. CASE DeleteWorkspace
    BY <2>3 DEF DeleteWorkspace
  <2>4. ASSUME NEW k \in Tasks, CreateJob(k) PROVE rec'[j] \in {rec[j], "absent"}
    BY <2>4 DEF JInv, JTypeOK, CreateJob, SaveJob, Terminal
  <2>5. ASSUME NEW k \in Tasks, CancelOverwrites(k) PROVE rec'[j] \in {rec[j], "absent"}
    BY <2>5 DEF JInv, JTypeOK, PlacesInv, CancelOverwrites, SaveJob
  <2>6. ASSUME NEW k \in Tasks,
               RecordRefusal(k) \/ RecoverJob(k) \/ SaveCommits(k) \/ ExecPanics(k)
        PROVE  rec'[j] \in {rec[j], "absent"}
    BY <2>1, <2>6 DEF RecordRefusal, RecoverJob, SaveCommits, ExecPanics, Pending
  <2>7. ASSUME NEW k \in Tasks, RunChecks(k) PROVE rec'[j] \in {rec[j], "absent"}
    BY <2>1, <2>2, <2>7 DEF RunChecks, Pending
  <2>8. JNext => \/ UNCHANGED rec \/ DeleteWorkspace
                 \/ \E k \in Tasks : \/ CreateJob(k) \/ CancelOverwrites(k) \/ RunChecks(k)
                                     \/ RecordRefusal(k) \/ RecoverJob(k) \/ SaveCommits(k)
                                     \/ ExecPanics(k)
    BY DEF JNext, RequestStep, HandlerStep, RunStep, store, CancelReads, SubmitJob, JobAdmitted,
           JobRefused, CancelSignals, CancelRereads, RunLoads, SaveBegins, ExecSucceeds, ExecFails,
           RunLeaves, Deadline, CancelAborts, StopReachesTask, RunStarts, Stop, DropQueued,
           RecoveryEnds, ProcessEnds, Restart
  <2>9. QED
    BY <2>2, <2>3, <2>4, <2>5, <2>6, <2>7, <2>8
<1>2. QED
  BY <1>1, JobsInvariant, PTL DEF JSpec, TerminalIsFinal
=============================================================================
