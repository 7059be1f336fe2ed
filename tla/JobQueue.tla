------------------------------ MODULE JobQueue ------------------------------
(***************************************************************************)
(* What the workspace-job executor promises to the HTTP handlers and to    *)
(* the jobs, with no goroutine or channel in it: a bounded FIFO of         *)
(* admitted jobs in which no tenant holds more than its share, whose       *)
(* entries are started in admission order, at most once each and a bounded *)
(* number at a time, and are dropped unstarted only after the executor has *)
(* been told to stop.                                                      *)
(* WorkspaceExecutor is shown to implement this specification.             *)
(***************************************************************************)
EXTENDS Naturals, Sequences, FiniteSets

CONSTANTS Tasks,      \* jobs handed to the executor, one Enqueue call each
          Tenants,    \* tenants that own jobs
          TenantOf,   \* TenantOf[t]: the tenant of job t
          Capacity,   \* admitted jobs that may wait at the same time
          Share,      \* of which this many may belong to one tenant
          Slots       \* jobs that may be started and not settled

VARIABLES job,        \* life-cycle state of each job
          waiting,    \* admitted jobs that have not started, oldest first
          closed      \* the executor has been told to stop

qvars == <<job, waiting, closed>>

JobStates == {"new", "submitted", "queued", "started", "settled", "refused"}

QueuedOf(tn) == {t \in Tasks : job[t] = "queued" /\ TenantOf[t] = tn}

StartedJobs == {t \in Tasks : job[t] = "started"}

QInit ==
  /\ job = [t \in Tasks |-> "new"]
  /\ waiting = <<>>
  /\ closed = FALSE

Submit(t) ==
  /\ job[t] = "new"
  /\ job' = [job EXCEPT ![t] = "submitted"]
  /\ UNCHANGED <<waiting, closed>>

\* The caller is told "admitted".  The answer may overtake a concurrent stop.
Admit(t) ==
  /\ job[t] = "submitted"
  /\ Len(waiting) < Capacity
  /\ Cardinality(QueuedOf(TenantOf[t])) < Share
  /\ job' = [job EXCEPT ![t] = "queued"]
  /\ waiting' = Append(waiting, t)
  /\ UNCHANGED closed

\* The caller is told an error: share exceeded, timed out, stopping.
Refuse(t) ==
  /\ job[t] = "submitted"
  /\ job' = [job EXCEPT ![t] = "refused"]
  /\ UNCHANGED <<waiting, closed>>

Start ==
  /\ waiting # <<>>
  /\ Cardinality(StartedJobs) < Slots
  /\ job' = [job EXCEPT ![Head(waiting)] = "started"]
  /\ waiting' = Tail(waiting)
  /\ UNCHANGED closed

Finish(t) ==
  /\ job[t] = "started"
  /\ job' = [job EXCEPT ![t] = "settled"]
  /\ UNCHANGED <<waiting, closed>>

Close ==
  /\ ~closed
  /\ closed' = TRUE
  /\ UNCHANGED <<job, waiting>>

\* A stopping executor abandons the oldest waiting job ...
DropHead ==
  /\ closed /\ waiting # <<>>
  /\ job' = [job EXCEPT ![Head(waiting)] = "settled"]
  /\ waiting' = Tail(waiting)
  /\ UNCHANGED closed

\* ... or everything that waits.
DropAll ==
  /\ closed
  /\ job' = [t \in Tasks |-> IF job[t] = "queued" THEN "settled" ELSE job[t]]
  /\ waiting' = <<>>
  /\ UNCHANGED closed

QNext ==
  \/ \E t \in Tasks : Submit(t) \/ Admit(t) \/ Refuse(t) \/ Finish(t)
  \/ Start \/ Close \/ DropHead \/ DropAll

QSpec == QInit /\ [][QNext]_qvars
=============================================================================
