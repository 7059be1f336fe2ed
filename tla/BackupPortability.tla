------------------------- MODULE BackupPortability -------------------------
(***************************************************************************)
(* Moving Veeam backup jobs along with migrated workloads                   *)
(* (internal/connectors/veeam/portability.go over client.go): plan the jobs   *)
(* of the targets, create and verify them, validate the continuity of the    *)
(* backups, and roll the created jobs back.  Requests fail before or after   *)
(* the server has applied them, tokens expire, and the server changes on its *)
(* own in between.                                                          *)
(***************************************************************************)
EXTENDS Naturals, Sequences, FiniteSets

CONSTANTS Mappings,     \* sequence of workload mappings: source and target VM
          SourceJobs,   \* sequence of the server's jobs: name, vms, repo
          RepositoryOf, \* repository mappings: repository -> repository
          MaxEdits      \* bound on what others change on the server

ASSUME BackupAssumption ==
    /\ Len(Mappings) \in Nat /\ DOMAIN Mappings = 1 .. Len(Mappings)
    \* The jobResults of a fleet are kept by the name of the target.
    /\ \A i, k \in DOMAIN Mappings : Mappings[i].target = Mappings[k].target => i = k

VARIABLES
    vjobs,     \* server: recreated jobs, by id
    points,    \* server: restore points, as VM and name of the job
    repos,     \* server: repositories that exist and have free capacity
    edits,     \* changes others have made
    stage,     \* what the manager is doing
    plans,     \* plan of each mapping: sequence of job templates
    at,        \* plan and job being executed or rolled back, step
    jobResults,   \* plan -> created ids, verification status, whether there were errors
    unnamed,   \* history: jobs whose creation was not answered with their id
    undeleted, \* history: jobs whose deletion was answered with success, undone
    reads,     \* the listings that a validation works on
    report     \* plan -> status of its continuity report

bvars == <<vjobs, points, repos, edits, stage, plans, at, jobResults, unnamed, undeleted, reads, report>>
server == <<vjobs, points, repos, edits>>

NoReads == [jobs |-> {}, points |-> {}, repos |-> {}]
NoResult == [created |-> <<>>, verified |-> {}, failed |-> FALSE]
NoId == [name |-> <<>>, n |-> 0]
Cursor(p, k) == [plan |-> p, job |-> k, step |-> "create", id |-> NoId]
Start == Cursor(1, 1)

-----------------------------------------------------------------------------
(* VeeamClient: a request with one retry after 401.                         *)

\* doRequest: applied or not, reported as done or as an error, with the id of the
\* created job in the body or without.
Done(id) == [applied |-> TRUE, ok |-> TRUE, id |-> id, unauthorized |-> FALSE]
Failed(applied) == [applied |-> applied, ok |-> FALSE, id |-> FALSE, unauthorized |-> FALSE]
Unauthorized == [applied |-> FALSE, ok |-> TRUE, id |-> FALSE, unauthorized |-> TRUE]
doRequest(exists) ==
    {Failed(FALSE), Unauthorized} \cup
    (IF exists THEN {Done(TRUE), Done(FALSE), Failed(TRUE)} ELSE {})

\* doJSONWithRetry: after a 401 the token is renewed and the request repeated; the
\* status of the second answer is not looked at, so a second 401 counts as done.
doJSONWithRetry(exists) ==
    {first \in doRequest(exists) : ~first.unauthorized}
    \cup {Failed(FALSE)}          \* Authenticate fails
    \cup doRequest(exists)        \* the second attempt

-----------------------------------------------------------------------------
(* Planning.                                                                *)

jobProtectsVM(j, vm) == vm \in j.vms
resolveRepository(repo) == IF repo \in DOMAIN RepositoryOf THEN RepositoryOf[repo] ELSE repo
\* Names as pairs: the target replaces the source in the name or is appended to it.
rewriteJobName(name, target) == <<name, target>>

\* The jobs that protect the workload, in the order of the listing.
ProtectingJobs(m) == SelectSeq(SourceJobs, LAMBDA j : jobProtectsVM(j, m.source))

PlanJobMigration(m) ==
    LET mine == ProtectingJobs(m)
    IN  [i \in DOMAIN mine |-> [name |-> rewriteJobName(mine[i].name, m.target),
                                repo |-> resolveRepository(mine[i].repo),
                                vm |-> m.target, settings |-> TRUE]]

\* PlanFleetMigration: a listing that fails ends it without a plan.
PlanFleetMigration ==
    /\ stage = "plan"
    /\ \/ /\ plans' = [i \in DOMAIN Mappings |-> PlanJobMigration(Mappings[i])]
          /\ stage' = "execute"
       \/ stage' = "ended" /\ UNCHANGED plans
    /\ UNCHANGED <<server, at, jobResults, unnamed, undeleted, reads, report>>

-----------------------------------------------------------------------------
(* Execution.                                                               *)

Template == plans[at.plan][at.job]
NextJob == Cursor(at.plan, at.job + 1)
\* The server gives every job an id of its own.
NewId == [name |-> Template.name, n |-> at.job]

\* POST /v1/jobs: a failure is noted and the next job is tried; the id comes from
\* the answer or else is the name (parseCreatedJobID).
CreateJob ==
    /\ stage = "execute" /\ at.plan \in DOMAIN plans /\ at.job \in DOMAIN plans[at.plan] /\ at.step = "create"
    /\ \E r \in doJSONWithRetry(TRUE) :
         LET new == NewId
             id == IF r.id THEN new ELSE [name |-> Template.name, n |-> 0]
         IN  /\ vjobs' = IF r.applied
                         THEN vjobs \cup {[id |-> new, name |-> Template.name, repo |-> Template.repo,
                                           vm |-> Template.vm, settings |-> TRUE]}
                         ELSE vjobs
             /\ unnamed' = IF r.applied /\ ~r.id THEN unnamed \cup {new} ELSE unnamed
             /\ IF r.ok
                THEN /\ jobResults' = [jobResults EXCEPT ![at.plan].created = Append(@, id)]
                     /\ at' = [plan |-> at.plan, job |-> at.job, step |-> "start", id |-> id]
                ELSE /\ jobResults' = [jobResults EXCEPT ![at.plan].failed = TRUE]
                     /\ at' = NextJob
    /\ UNCHANGED <<points, repos, edits, stage, plans, undeleted, reads, report>>

\* POST /v1/jobs/{id}/start: verification of the job just created.
StartJob ==
    /\ stage = "execute" /\ at.step = "start"
    /\ \E r \in doJSONWithRetry(\E j \in vjobs : j.id = at.id) :
         IF r.ok THEN jobResults' = [jobResults EXCEPT ![at.plan].verified = @ \cup {at.id}]
                 ELSE jobResults' = [jobResults EXCEPT ![at.plan].failed = TRUE]
    /\ at' = NextJob
    /\ UNCHANGED <<server, stage, plans, unnamed, undeleted, reads, report>>

\* ExecuteFleetMigration goes on to the next workload, whatever the errors were.
NextWorkload ==
    /\ stage = "execute" /\ at.plan \in DOMAIN plans /\ at.job \notin DOMAIN plans[at.plan]
    /\ at' = Cursor(at.plan + 1, 1)
    /\ UNCHANGED <<server, stage, plans, jobResults, unnamed, undeleted, reads, report>>

\* Executed: the caller validates or rolls back.
AfterExecute ==
    /\ stage = "execute" /\ at.plan \notin DOMAIN plans
    /\ stage' \in {"list jobs", "rollback"} /\ at' = Start
    /\ UNCHANGED <<server, plans, jobResults, unnamed, undeleted, reads, report>>

-----------------------------------------------------------------------------
(* Validation of one workload after the other, from three listings.         *)

ReadJobs ==
    /\ stage = "list jobs" /\ at.plan \in DOMAIN plans
    /\ reads' = [reads EXCEPT !.jobs = vjobs] /\ stage' = "list points"
    /\ UNCHANGED <<server, plans, at, jobResults, unnamed, undeleted, report>>
ReadPoints ==
    /\ stage = "list points"
    /\ reads' = [reads EXCEPT !.points = points] /\ stage' = "list repositories"
    /\ UNCHANGED <<server, plans, at, jobResults, unnamed, undeleted, report>>
ReadRepositories ==
    /\ stage = "list repositories"
    /\ reads' = [reads EXCEPT !.repos = repos] /\ stage' = "judge"
    /\ UNCHANGED <<server, plans, at, jobResults, unnamed, undeleted, report>>

\* A listing that fails ends the validation of the fleet without a report.
ReadFails ==
    /\ stage \in {"list jobs", "list points", "list repositories"} /\ at.plan \in DOMAIN plans
    /\ stage' = "rollback" /\ at' = Start /\ report' = [i \in DOMAIN Mappings |-> "none"]
    /\ UNCHANGED <<server, plans, jobResults, unnamed, undeleted, reads>>

evaluateRepositoryCompatibility(repo) == repo \in reads.repos
\* detectPolicyDrift: the severities of what differs from the template.
detectPolicyDrift(expected, actual) ==
    (IF expected.repo # actual.repo \/ expected.vm # actual.vm THEN {"error"} ELSE {})
    \cup (IF expected.settings # actual.settings THEN {"warning"} ELSE {})
matchingRestorePoints(plan) ==
    {p \in reads.points : p.vm = Mappings[at.plan].target \/ \E i \in DOMAIN plan : p.job = plan[i].name}

\* The listing by name keeps one of several jobs with a name, and none if there is none.
CurrentJobs(name) == {j \in reads.jobs : j.name = name}

\* Mutant: a lesser finding overwrites a worse one.
ContinuityStatusEager(plan, listed) ==
    LET drifts == UNION {detectPolicyDrift(plan[i], listed[i]) : i \in DOMAIN listed}
        missing == DOMAIN plan # DOMAIN listed
        s1 == IF missing \/ "error" \in drifts THEN "degraded" ELSE "healthy"
        s2 == IF matchingRestorePoints(plan) = {} THEN "warning" ELSE s1
    IN  IF s2 = "healthy" /\ drifts # {} THEN "warning" ELSE s2

\* ValidateBackupContinuity: the status after each of its steps in turn.
ContinuityStatus(plan, listed) ==
    LET drifts == UNION {detectPolicyDrift(plan[i], listed[i]) : i \in DOMAIN listed}
        missing == DOMAIN plan # DOMAIN listed
        s1 == IF missing THEN "degraded" ELSE "healthy"
        s2 == IF matchingRestorePoints(plan) = {} /\ s1 = "healthy" THEN "warning" ELSE s1
        s3 == IF s2 = "healthy" /\ drifts # {} THEN "warning" ELSE s2
        s4 == IF /\ s3 = "healthy"
                 /\ \E i \in DOMAIN listed : ~evaluateRepositoryCompatibility(listed[i].repo)
              THEN "warning" ELSE s3
    IN  IF missing \/ "error" \in drifts THEN "degraded" ELSE s4

\* A choice of the listed job for every template that has one.
PlanChoices(plan) ==
    LET found == {i \in DOMAIN plan : CurrentJobs(plan[i].name) # {}}
    IN  {f \in [found -> reads.jobs] : \A i \in found : f[i] \in CurrentJobs(plan[i].name)}

ValidateBackupContinuity ==
    /\ stage = "judge"
    /\ \E listed \in PlanChoices(plans[at.plan]) :
         report' = [report EXCEPT ![at.plan] = ContinuityStatus(plans[at.plan], listed)]
    /\ stage' = "judged"
    /\ UNCHANGED <<server, plans, at, jobResults, unnamed, undeleted, reads>>

ValidateNext ==
    /\ stage = "judged"
    /\ at' = Cursor(at.plan + 1, 1) /\ stage' = "list jobs" /\ reads' = NoReads
    /\ UNCHANGED <<server, plans, jobResults, unnamed, undeleted, report>>

AfterValidate ==
    /\ stage = "list jobs" /\ at.plan \notin DOMAIN plans
    /\ stage' \in {"ended", "rollback"} /\ at' = Start
    /\ UNCHANGED <<server, plans, jobResults, unnamed, undeleted, reads, report>>

-----------------------------------------------------------------------------
(* RollbackJobMigration of every result.                                    *)

\* DELETE of every id in CreatedJobs, in order, with the errors collected.
RollbackJobMigration ==
    /\ stage = "rollback" /\ at.plan \in DOMAIN plans
    /\ IF at.job > Len(jobResults[at.plan].created)
       THEN at' = Cursor(at.plan + 1, 1) /\ UNCHANGED <<vjobs, undeleted, jobResults>>
       ELSE LET id == jobResults[at.plan].created[at.job] IN
            \E r \in doJSONWithRetry(\E j \in vjobs : j.id = id) :
              /\ vjobs' = IF r.applied THEN {j \in vjobs : j.id # id} ELSE vjobs
              /\ undeleted' = IF r.ok /\ ~r.applied THEN undeleted \cup {id} ELSE undeleted
              /\ jobResults' = [jobResults EXCEPT ![at.plan].failed =
                               (at.job > 1 /\ @) \/ ~r.ok]
              /\ at' = NextJob
    /\ UNCHANGED <<points, repos, edits, stage, plans, unnamed, reads, report>>

RollbackEnds ==
    /\ stage = "rollback" /\ at.plan \notin DOMAIN plans
    /\ stage' = IF \E i \in DOMAIN jobResults : jobResults[i].failed /\ jobResults[i].created # <<>>
                THEN "rollback failed" ELSE "rolled back"
    /\ UNCHANGED <<server, plans, at, jobResults, unnamed, undeleted, reads, report>>

-----------------------------------------------------------------------------
(* External: the server on its own.                                         *)

\* An operator changes a job (a setting, the repository or the VM) or removes it,
\* a repository fills up, or a job writes a restore point.
Edit ==
    /\ edits < MaxEdits /\ edits' = edits + 1
    /\ stage \in {"execute", "list jobs", "list points", "list repositories"}
    /\ \/ /\ \E j \in vjobs : \/ vjobs' = vjobs \ {j}
                              \/ vjobs' = (vjobs \ {j}) \cup {[j EXCEPT !.settings = FALSE]}
                              \/ vjobs' = (vjobs \ {j}) \cup {[j EXCEPT !.repo = "other"]}
          /\ UNCHANGED repos
       \/ \E r \in repos : repos' = repos \ {r} /\ UNCHANGED vjobs
    /\ UNCHANGED <<points, stage, plans, at, jobResults, unnamed, undeleted, reads, report>>

BackupRuns ==
    /\ stage \in {"execute", "list jobs", "list points", "list repositories"}
    /\ \E j \in vjobs : points' = points \cup {[vm |-> j.vm, job |-> j.name]}
    /\ points' # points
    /\ UNCHANGED <<vjobs, repos, edits, stage, plans, at, jobResults, unnamed, undeleted, reads, report>>

BInit ==
    /\ vjobs = {} /\ points = {} /\ edits = 0
    /\ repos = {resolveRepository(SourceJobs[i].repo) : i \in DOMAIN SourceJobs}
    /\ stage = "plan" /\ plans = <<>> /\ at = Start
    /\ jobResults = [i \in DOMAIN Mappings |-> NoResult]
    /\ unnamed = {} /\ undeleted = {} /\ reads = NoReads
    /\ report = [i \in DOMAIN Mappings |-> "none"]

BNext ==
    \/ PlanFleetMigration \/ CreateJob \/ StartJob \/ NextWorkload \/ AfterExecute
    \/ ReadJobs \/ ReadPoints \/ ReadRepositories \/ ReadFails
    \/ ValidateBackupContinuity \/ ValidateNext \/ AfterValidate
    \/ RollbackJobMigration \/ RollbackEnds \/ Edit \/ BackupRuns

BSpec == BInit /\ [][BNext]_bvars

-----------------------------------------------------------------------------
(* Properties.                                                              *)

Statuses == {"healthy", "warning", "degraded"}
\* Ids name one job on the server, and ExecuteJobMigration reports as verified only
\* jobs that it lists as created, also when answers carry no id.
BTypeOK ==
    /\ \A i \in DOMAIN report : report[i] \in Statuses \cup {"none"}
    /\ \A i \in DOMAIN jobResults :
          jobResults[i].verified \subseteq {jobResults[i].created[k] : k \in DOMAIN jobResults[i].created}
    /\ \A j, k \in vjobs : j.id = k.id => j = k

\* A rollback that reports no error leaves a recreated job behind only if the
\* answer to its creation was lost or did not name it, or if the answer to its
\* deletion was a second 401, which the client takes for success.
CleanRollback ==
    stage = "rolled back" => {j.id : j \in vjobs} \subseteq unnamed \cup undeleted

\* The status that the steps of ValidateBackupContinuity end up with is the worst
\* of what they found: a missing job or a wrong repository or VM is never hidden
\* by a lesser finding, and healthy means that nothing at all was found.
StatusIsWorst ==
    stage = "judged" =>
      LET plan == plans[at.plan]
          clean(i) == \E j \in CurrentJobs(plan[i].name) :
                        j.repo = plan[i].repo /\ j.vm = plan[i].vm
      IN  /\ report[at.plan] = "healthy" =>
               /\ \A i \in DOMAIN plan : \E j \in CurrentJobs(plan[i].name) :
                     /\ j.repo = plan[i].repo /\ j.vm = plan[i].vm /\ j.settings
                     /\ j.repo \in reads.repos
               /\ matchingRestorePoints(plan) # {}
          /\ (\E i \in DOMAIN plan : ~clean(i)) => report[at.plan] = "degraded"

\* What the portability manager reports is so: a rollback without errors has left
\* only jobs whose answers were lost or mistaken, verified jobs were created, and a
\* continuity report shows the worst that was found.
BackupsAreAccounted ==
  /\ BTypeOK
  /\ CleanRollback
  /\ StatusIsWorst
=============================================================================
