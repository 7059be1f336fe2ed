---------------------------- MODULE WorkspaceJobs ----------------------------
(***************************************************************************)
(* The life of a workspace job across the HTTP handlers, the executor, the *)
(* worker that runs it, the store and a restart of the API server          *)
(* (internal/api/workspaces.go).  The executor appears through what it     *)
(* promises, the specification JobQueue: each action that submits, admits, *)
(* starts or settles a job is a step of JobQueue conjoined with what the   *)
(* surrounding code does to the job record.                                *)
(*                                                                         *)
(* A store call made with a job's own context first checks the context     *)
(* and then takes the store's lock, two steps between which the context    *)
(* can be cancelled; a call made with a dead context fails and changes     *)
(* nothing.  Calls made with a context that outlives the request are one   *)
(* step.                                                                   *)
(***************************************************************************)
EXTENDS JobQueue

CONSTANTS JobTimeouts,    \* BOOLEAN: may a job's deadline pass?
          CancelRequests, \* BOOLEAN: do clients cancel jobs?
          ClientAborts,   \* BOOLEAN: may a client drop a cancel request?
          MaxRestarts     \* bound on restarts of the API server

ASSUME JobsAssumption ==
  /\ {JobTimeouts, CancelRequests, ClientAborts} \subseteq BOOLEAN
  /\ MaxRestarts \in Nat

VARIABLES
  mode,      \* API process: "up", "stopping", "down", "recovering"
  restarts,  \* restarts so far
  ws,        \* the workspace that owns the jobs exists in the store
  rec,       \* stored status of each job, "absent" when there is no record
  create,    \* the handler (or recovery) that hands the job to the executor
  handle,    \* jobs with a registered cancel function
  dead,      \* jobs whose task context is cancelled or past its deadline
  run,       \* where the worker is in runWorkspaceJob for the job
  wr,        \* status the worker is writing
  applied,   \* jobs whose result a worker has written to the workspace (history)
  cancel,    \* where a cancel request for the job is
  todo,      \* jobs the start-up recovery has listed and not handled
  exposed    \* jobs that this process timed out, canceled or did not recover (history)

store == <<ws, rec, applied, exposed>>
proc == <<create, handle, dead, run, wr, cancel, todo>>
jvars == <<qvars, mode, restarts, store, proc>>

Open(j) == rec[j] \in {"queued", "running"}

Terminal(j) == rec[j] \in {"succeeded", "failed"}

JInit ==
  /\ QInit
  /\ mode = "up" /\ restarts = 0
  /\ ws = TRUE
  /\ rec = [j \in Tasks |-> "absent"]
  /\ applied = {} /\ exposed = {}
  /\ create = [j \in Tasks |-> "idle"]
  /\ handle = {} /\ dead = {}
  /\ run = [j \in Tasks |-> "none"]
  /\ wr = [j \in Tasks |-> "running"]
  /\ cancel = [j \in Tasks |-> "idle"]
  /\ todo = {}

\* SaveWorkspaceJob: an existing record is overwritten whatever it says, a
\* missing one is created only while its workspace exists.
CanSave(j) == rec[j] # "absent" \/ ws

SaveJob(j, status) ==
  rec' = IF CanSave(j) THEN [rec EXCEPT ![j] = status] ELSE rec

-----------------------------------------------------------------------------
\* POST .../jobs: save the record, register the cancel function, hand the job
\* to the executor, record a failure if it is refused.

CreateJob(j) ==
  /\ mode = "up" /\ ws
  /\ create[j] = "idle" /\ rec[j] = "absent" /\ job[j] = "new"
  /\ SaveJob(j, "queued")
  /\ create' = [create EXCEPT ![j] = "enqueue"]
  /\ UNCHANGED <<qvars, mode, restarts, ws, applied, exposed, handle, dead, run, wr,
                 cancel, todo>>

SubmitJob(j) ==
  /\ create[j] \in {"enqueue", "reenqueue"}
  /\ Submit(j)
  /\ handle' = handle \cup {j}
  /\ dead' = dead \ {j}
  /\ create' = [create EXCEPT ![j] =
                  IF @ = "enqueue" THEN "submitted" ELSE "resubmitted"]
  /\ UNCHANGED <<mode, restarts, store, run, wr, cancel, todo>>

JobAdmitted(j) ==
  /\ Admit(j)
  /\ create' = [create EXCEPT ![j] = "handedover"]
  /\ UNCHANGED <<mode, restarts, store, handle, dead, run, wr, cancel, todo>>

\* Enqueue returns an error; enqueueWorkspaceJob releases the contexts.
JobRefused(j) ==
  /\ Refuse(j)
  /\ handle' = handle \ {j}
  /\ dead' = dead \cup {j}
  /\ create' = [create EXCEPT ![j] =
                  IF @ = "submitted" THEN "failing" ELSE "refailing"]
  /\ UNCHANGED <<mode, restarts, store, run, wr, cancel, todo>>

\* Mutant: the refusal is only logged.
RecordRefusalLogs(j) ==
  /\ create[j] \in {"failing", "refailing"}
  /\ create' = [create EXCEPT ![j] = "handedover"]
  /\ IF create[j] = "refailing"
     THEN /\ todo' = {} /\ exposed' = exposed \cup todo
          /\ mode' = IF mode = "recovering" THEN "up" ELSE mode
     ELSE UNCHANGED <<todo, exposed, mode>>
  /\ UNCHANGED <<qvars, restarts, ws, rec, applied, handle, dead, run, wr, cancel>>

\* recordWorkspaceJobFailure with a context that outlives the request.  The
\* start-up recovery then gives up on all jobs it has not handled.
RecordRefusal(j) ==
  /\ create[j] \in {"failing", "refailing"}
  /\ SaveJob(j, "failed")
  /\ create' = [create EXCEPT ![j] = "handedover"]
  /\ IF create[j] = "refailing"
     THEN /\ todo' = {} /\ exposed' = exposed \cup todo
          /\ mode' = IF mode = "recovering" THEN "up" ELSE mode
     ELSE UNCHANGED <<todo, exposed, mode>>
  /\ UNCHANGED <<qvars, restarts, ws, applied, handle, dead, run, wr, cancel>>

\* DELETE of the workspace removes its jobs with it.
DeleteWorkspace ==
  /\ mode = "up" /\ ws
  /\ ws' = FALSE
  /\ rec' = [j \in Tasks |-> "absent"]
  /\ UNCHANGED <<qvars, mode, restarts, applied, exposed, proc>>

-----------------------------------------------------------------------------
\* The worker: runWorkspaceJob.

RunStarts ==
  /\ Start
  /\ run' = [run EXCEPT ![Head(waiting)] = "load"]
  /\ UNCHANGED <<mode, restarts, store, create, handle, dead, wr, cancel, todo>>

Goto(j, pc) == run' = [run EXCEPT ![j] = pc]

\* Read the job record.  A dead context or a deleted job fails the read, and
\* the failure record it then tries to write fails the same way.
RunLoads(j) ==
  /\ run[j] = "load"
  /\ Goto(j, IF j \notin dead /\ Open(j) THEN "check" ELSE "leave")
  /\ UNCHANGED <<qvars, mode, restarts, store, create, handle, dead, wr,
                 cancel, todo>>

\* A context that died since the read: the cancellation is recorded with a
\* context that outlives the job.  Otherwise go on to mark the job running.
RunChecks(j) ==
  /\ run[j] = "check"
  /\ IF j \in dead
     THEN SaveJob(j, "failed") /\ Goto(j, "leave") /\ UNCHANGED wr
     ELSE /\ Goto(j, IF ws THEN "begin" ELSE "leave")
          /\ wr' = [wr EXCEPT ![j] = "running"]
          /\ UNCHANGED rec
  /\ UNCHANGED <<qvars, mode, restarts, ws, applied, exposed, create, handle, dead,
                 cancel, todo>>

\* SaveWorkspaceJob checks the job's context ...
SaveBegins(j) ==
  /\ run[j] = "begin"
  /\ Goto(j, IF j \in dead THEN "leave" ELSE "commit")
  /\ UNCHANGED <<qvars, mode, restarts, store, create, handle, dead, wr,
                 cancel, todo>>

\* ... and then writes under the store's lock.  A write that fails is followed
\* by a failure record that fails for the same reason.
SaveCommits(j) ==
  /\ run[j] = "commit"
  /\ SaveJob(j, wr[j])
  /\ Goto(j, IF CanSave(j) /\ wr[j] = "running" THEN "exec" ELSE "leave")
  /\ UNCHANGED <<qvars, mode, restarts, ws, applied, exposed, create, handle, dead, wr,
                 cancel, todo>>

\* executeWorkspace...Job ends by writing the workspace with the job's context.
ExecSucceeds(j) ==
  /\ run[j] = "exec" /\ j \notin dead /\ ws
  /\ applied' = applied \cup {j}
  /\ wr' = [wr EXCEPT ![j] = "succeeded"]
  /\ Goto(j, "begin")
  /\ UNCHANGED <<qvars, mode, restarts, ws, rec, exposed, create, handle, dead, cancel,
                 todo>>

\* Mutant: the error of the job is not looked at.
ExecFailsUnseen(j) ==
  /\ run[j] = "exec"
  /\ wr' = [wr EXCEPT ![j] = "succeeded"]
  /\ Goto(j, "begin")
  /\ UNCHANGED <<qvars, mode, restarts, store, create, handle, dead, cancel,
                 todo>>

\* Any error: discovery, planning, a dead context, a deleted workspace.
ExecFails(j) ==
  /\ run[j] = "exec"
  /\ wr' = [wr EXCEPT ![j] = "failed"]
  /\ Goto(j, "begin")
  /\ UNCHANGED <<qvars, mode, restarts, store, create, handle, dead, cancel,
                 todo>>

\* A recovered panic is recorded with a context that outlives the job.
ExecPanics(j) ==
  /\ run[j] = "exec"
  /\ SaveJob(j, "failed")
  /\ Goto(j, "leave")
  /\ UNCHANGED <<qvars, mode, restarts, ws, applied, exposed, create, handle, dead, wr,
                 cancel, todo>>

\* The worker's deferred cleanup releases the task.
RunLeaves(j) ==
  /\ run[j] = "leave"
  /\ Finish(j)
  /\ Goto(j, "none")
  /\ handle' = handle \ {j} /\ dead' = dead \cup {j}
  /\ UNCHANGED <<mode, restarts, store, create, wr, cancel, todo>>

\* The job's deadline, set when it was submitted, passes.
Deadline(j) ==
  /\ JobTimeouts
  /\ job[j] \in {"submitted", "queued", "started"} /\ j \notin dead
  /\ dead' = dead \cup {j} /\ exposed' = exposed \cup {j}
  /\ UNCHANGED <<qvars, mode, restarts, ws, rec, applied, create, handle, run, wr, cancel,
                 todo>>

-----------------------------------------------------------------------------
\* POST .../cancel: read, signal the task, read again, overwrite.

CancelReads(j) ==
  /\ CancelRequests
  /\ mode = "up" /\ cancel[j] = "idle" /\ Open(j)
  /\ cancel' = [cancel EXCEPT ![j] = "signal"]
  /\ UNCHANGED <<qvars, mode, restarts, store, create, handle, dead, run, wr,
                 todo>>

CancelSignals(j) ==
  /\ cancel[j] = "signal"
  /\ dead' = dead \cup ({j} \cap handle)
  /\ handle' = handle \ {j} /\ exposed' = exposed \cup {j}
  /\ cancel' = [cancel EXCEPT ![j] = "reread"]
  /\ UNCHANGED <<qvars, mode, restarts, ws, rec, applied, create, run, wr, todo>>

CancelRereads(j) ==
  /\ cancel[j] = "reread"
  /\ cancel' = [cancel EXCEPT ![j] = IF Open(j) THEN "overwrite" ELSE "idle"]
  /\ UNCHANGED <<qvars, mode, restarts, store, create, handle, dead, run, wr,
                 todo>>

CancelOverwrites(j) ==
  /\ cancel[j] = "overwrite"
  /\ SaveJob(j, "failed")
  /\ cancel' = [cancel EXCEPT ![j] = "idle"]
  /\ UNCHANGED <<qvars, mode, restarts, ws, applied, exposed, create, handle, dead, run,
                 wr, todo>>

\* The client goes away: the next store call of the handler fails.
CancelAborts(j) ==
  /\ ClientAborts /\ cancel[j] # "idle"
  /\ cancel' = [cancel EXCEPT ![j] = "idle"]
  /\ UNCHANGED <<qvars, mode, restarts, store, create, handle, dead, run, wr,
                 todo>>

-----------------------------------------------------------------------------
\* The API process.

\* The server context is cancelled; the model only stops a server that is
\* started again.
Stop ==
  /\ mode = "up" /\ restarts < MaxRestarts
  /\ Close
  /\ mode' = "stopping"
  /\ UNCHANGED <<restarts, store, proc>>

\* taskContext: the watcher goroutine of a started task sees the server
\* context done and cancels the task's context.
StopReachesTask(j) ==
  /\ closed /\ job[j] = "started" /\ j \notin dead
  /\ dead' = dead \cup {j}
  /\ UNCHANGED <<qvars, mode, restarts, store, create, handle, run, wr, cancel,
                 todo>>

\* The stopping executor drops and releases what waits.
DropQueued ==
  /\ mode = "stopping" /\ waiting # <<>>
  /\ DropAll
  /\ LET dropped == {j \in Tasks : job[j] = "queued"}
     IN handle' = handle \ dropped /\ dead' = dead \cup dropped
  /\ UNCHANGED <<mode, restarts, store, create, run, wr, cancel, todo>>

\* The process ends, by itself or by a crash: only the store survives.
ProcessEnds ==
  /\ mode # "down" /\ restarts < MaxRestarts
  /\ mode' = "down"
  /\ UNCHANGED <<qvars, restarts, store, proc>>

\* Mutant: only the jobs that never ran are listed.
RestartForgetsRunning ==
  /\ mode = "down"
  /\ restarts' = restarts + 1
  /\ job' = [j \in Tasks |-> "new"] /\ waiting' = <<>> /\ closed' = FALSE
  /\ create' = [j \in Tasks |-> "idle"] /\ cancel' = [j \in Tasks |-> "idle"]
  /\ run' = [j \in Tasks |-> "none"] /\ wr' = [j \in Tasks |-> "running"]
  /\ handle' = {} /\ dead' = {}
  /\ todo' = {j \in Tasks : rec[j] = "queued"}
  /\ mode' = "recovering" /\ exposed' = {}
  /\ UNCHANGED <<ws, rec, applied>>

\* Mutant: finished jobs are listed, too.
RestartListsAll ==
  /\ mode = "down"
  /\ restarts' = restarts + 1
  /\ job' = [j \in Tasks |-> "new"] /\ waiting' = <<>> /\ closed' = FALSE
  /\ create' = [j \in Tasks |-> "idle"] /\ cancel' = [j \in Tasks |-> "idle"]
  /\ run' = [j \in Tasks |-> "none"] /\ wr' = [j \in Tasks |-> "running"]
  /\ handle' = {} /\ dead' = {}
  /\ todo' = {j \in Tasks : rec[j] # "absent"}
  /\ mode' = "recovering" /\ exposed' = {}
  /\ UNCHANGED <<ws, rec, applied>>

\* A new process lists the unfinished jobs before it accepts requests.
Restart ==
  /\ mode = "down"
  /\ restarts' = restarts + 1
  /\ job' = [j \in Tasks |-> "new"] /\ waiting' = <<>> /\ closed' = FALSE
  /\ create' = [j \in Tasks |-> "idle"] /\ cancel' = [j \in Tasks |-> "idle"]
  /\ run' = [j \in Tasks |-> "none"] /\ wr' = [j \in Tasks |-> "running"]
  /\ handle' = {} /\ dead' = {}
  /\ todo' = {j \in Tasks : Open(j)}
  /\ mode' = "recovering" /\ exposed' = {}
  /\ UNCHANGED <<ws, rec, applied>>

\* recoverWorkspaceJobs saves one job as queued and submits it again.
RecoverJob(j) ==
  /\ mode = "recovering" /\ j \in todo
  /\ \A k \in Tasks : create[k] \notin {"reenqueue", "resubmitted", "refailing"}
  /\ SaveJob(j, "queued")
  /\ todo' = todo \ {j}
  /\ create' = [create EXCEPT ![j] = "reenqueue"]
  /\ UNCHANGED <<qvars, mode, restarts, ws, applied, exposed, handle, dead, run, wr, cancel>>

RecoveryEnds ==
  /\ mode = "recovering" /\ todo = {}
  /\ \A k \in Tasks : create[k] \notin {"reenqueue", "resubmitted", "refailing"}
  /\ mode' = "up"
  /\ UNCHANGED <<qvars, restarts, store, proc>>

-----------------------------------------------------------------------------
RequestStep(j) == CreateJob(j) \/ CancelReads(j)

HandlerStep(j) ==
  \/ SubmitJob(j) \/ JobAdmitted(j) \/ JobRefused(j) \/ RecordRefusal(j)
  \/ CancelSignals(j) \/ CancelRereads(j) \/ CancelOverwrites(j)
  \/ RecoverJob(j)

RunStep(j) ==
  \/ RunLoads(j) \/ RunChecks(j) \/ SaveBegins(j) \/ SaveCommits(j)
  \/ ExecSucceeds(j) \/ ExecFails(j) \/ ExecPanics(j) \/ RunLeaves(j)

Alive == mode # "down"

JNext ==
  \/ /\ Alive
     /\ \/ \E j \in Tasks : RequestStep(j) \/ HandlerStep(j) \/ RunStep(j)
        \/ \E j \in Tasks : Deadline(j) \/ CancelAborts(j) \/ StopReachesTask(j)
        \/ RunStarts \/ DeleteWorkspace \/ Stop \/ DropQueued \/ RecoveryEnds
  \/ ProcessEnds
  \/ Restart

JSpec == JInit /\ [][JNext]_jvars

\* Goroutines that can run do run, jobs end, a process that ended is started
\* again.  Requests, deadlines and crashes are never forced.
JFairness ==
  /\ WF_jvars(Alive /\ (RunStarts \/ DropQueued \/ RecoveryEnds))
  /\ \A j \in Tasks : WF_jvars(Alive /\ HandlerStep(j)) /\ WF_jvars(Alive /\ RunStep(j))
  /\ WF_jvars(mode = "stopping" /\ ProcessEnds) /\ WF_jvars(Restart)

JFairSpec == JSpec /\ JFairness

-----------------------------------------------------------------------------
\* Properties.

\* Types of the job state: the records only hold the statuses the API
\* documents, whoever writes them.
JTypeOK ==
  /\ mode \in {"up", "stopping", "down", "recovering"}
  /\ restarts \in 0..MaxRestarts
  /\ ws \in BOOLEAN
  /\ rec \in [Tasks -> {"absent", "queued", "running", "succeeded", "failed"}]
  /\ applied \subseteq Tasks /\ exposed \subseteq Tasks
  /\ create \in [Tasks -> {"idle", "enqueue", "reenqueue", "submitted",
                           "resubmitted", "failing", "refailing", "handedover"}]
  /\ handle \subseteq Tasks /\ dead \subseteq Tasks /\ todo \subseteq Tasks
  /\ run \in [Tasks -> {"none", "load", "check", "begin", "commit", "exec", "leave"}]
  /\ wr \in [Tasks -> {"running", "succeeded", "failed"}]
  /\ cancel \in [Tasks -> {"idle", "signal", "reread", "overwrite"}]

\* Somebody is still going to settle the job's record: the request that
\* created it, the recovery, the executor, a worker or a cancel request.
Owned(j) ==
  \/ create[j] \in {"enqueue", "reenqueue", "failing", "refailing"}
  \/ job[j] \in {"submitted", "queued", "started"}
  \/ cancel[j] \in {"reread", "overwrite"}

\* While the API serves requests, a job that the store shows as queued or
\* running is in somebody's hands: no path through refusal, deletion, panic or
\* restart leaves a record that nobody will complete.  The exceptions are three:
\* the deadline of the job passed, a client canceled it, or the recovery gave
\* up before its turn; and the next process owns these again.
StrandedJobsAreExposed ==
  mode = "up" => \A j \in Tasks : Open(j) => Owned(j) \/ j \in exposed

\* A job recorded as succeeded has written its result to the workspace
\* before, in this process or an earlier one.
SucceededWasApplied ==
  \A j \in Tasks : rec[j] = "succeeded" => j \in applied

\* Deleting a workspace is final for its jobs: no late write of a worker, a
\* cancel request, a refused enqueue or the recovery brings a record back.
DeletedStaysDeleted ==
  ~ws => \A j \in Tasks : rec[j] = "absent"

\* The registry of cancel functions holds exactly what can still be
\* cancelled: a registered job is with the executor, so the registry does not
\* grow with finished jobs, and a job whose context is alive is registered, so
\* a cancel request reaches it.
CancelHandlesMatch ==
  mode # "down" =>
    \A j \in Tasks :
      /\ j \in handle => job[j] \in {"submitted", "queued", "started"}
      /\ mode # "stopping" /\ job[j] \in {"queued", "started"} /\ j \notin dead
           => j \in handle

\* A record that says succeeded or failed keeps saying so, also through the
\* recovery of a new process.  Only a cancel request and the worker of the
\* same job, which both read the record and later overwrite it whole, can
\* turn a failed record into a running one or a succeeded one into a failed one.
TerminalIsFinal ==
  [][\A j \in Tasks : Terminal(j) /\ j \notin exposed => rec'[j] \in {rec[j], "absent"}]_jvars

\* Every job that was accepted ends: succeeded, failed, or deleted with its
\* workspace, across refusals, panics and restarts, unless it becomes exposed.
JobsSettle ==
  \A j \in Tasks :
    rec[j] = "queued" ~> Terminal(j) \/ rec[j] = "absent" \/ j \in exposed

\* What the store says of a job is so: succeeded means that the result is in the
\* workspace, and the jobs of a deleted workspace are gone, whichever handler,
\* worker or recovery wrote last.
JobRecordsAreTrue ==
  /\ JTypeOK
  /\ SucceededWasApplied
  /\ DeletedStaysDeleted

\* Records, executor and registry agree: an open record has somebody who will
\* complete it, up to the exceptions named above, and the cancel functions are
\* exactly those of the jobs that the executor still has.
OpenJobsAreHeld ==
  /\ StrandedJobsAreExposed
  /\ CancelHandlesMatch
=============================================================================
