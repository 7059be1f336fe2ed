------------------------ MODULE WorkspaceDocuments ------------------------
(***************************************************************************)
(* The document of an assessment workspace (internal/api/workspaces.go):     *)
(* discovery, graph, simulation and plan jobs, PATCH requests and report     *)
(* exports each read the whole document, change their part of the copy and   *)
(* write the whole document back, at the same time and without a version     *)
(* check; the workspace may be deleted and created again in between.         *)
(***************************************************************************)
EXTENDS Naturals, Sequences, FiniteSets

CONSTANTS Writers,       \* requests and running jobs
          Sources,       \* source connections
          AddressOf,     \* source -> address, trimmed and in lower case
          VmsOf,         \* source -> workloads that a discovery finds there
          Patches,       \* PATCH bodies: the fields that are present -> values
          Selections,    \* selected_workload_ids of requests
          Bodies,        \* POST bodies: source connections and target
          MaxSnapshots, MaxPlans, MaxReports, MaxRequests,
          None, NoDoc    \* no value, no document

statusWeight == [draft |-> 0, discovered |-> 1, graph_ready |-> 2, simulated |-> 3,
                 planned |-> 4, reported |-> 5]

Snapshots == [Sources -> Nat]   \* the snapshot of each source, 0 when there is none
NoSnapshots == [s \in Sources |-> 0]
Gates == {"pending", "clear"}   \* a plan awaits approval, or does not
Plans == [id : Nat, base : Snapshots, required : BOOLEAN, gate : Gates]
Settings == [required : BOOLEAN, by : BOOLEAN]
Fields == {"sources", "target", "last", "settings", "approval", "selected", "snaps",
           "graph", "sim", "plan", "reports", "status"}
Documents ==
    [sources : Seq(Sources), target : BOOLEAN, last : Snapshots, settings : Settings,
     approval : [status : {None, "pending", "approved", "rejected"}, synced : BOOLEAN],
     selected : Selections, snaps : Snapshots, graph : Snapshots \cup {None},
     sim : Snapshots \cup {None}, plan : Plans \cup {None}, reports : Nat,
     status : DOMAIN statusWeight]

\* A PATCH body has some of the fields that operators edit; its approval entry, which may
\* come without a status, is not one that a plan job has made.
PatchOK(body) ==
    /\ DOMAIN body \subseteq {"sources", "target", "settings", "approval", "selected"}
    /\ "sources" \in DOMAIN body => body.sources \in Seq(Sources)
    /\ "target" \in DOMAIN body => body.target \in BOOLEAN
    /\ "settings" \in DOMAIN body => body.settings \in Settings
    /\ "selected" \in DOMAIN body => body.selected \in Selections
    /\ "approval" \in DOMAIN body =>
          body.approval \in [status : {"", "pending", "approved", "rejected"}, synced : {FALSE}]

ASSUME DocumentAssumption ==
    /\ IsFiniteSet(Sources) /\ {} \in Selections
    /\ MaxSnapshots \in Nat /\ MaxPlans \in Nat /\ MaxReports \in Nat /\ MaxRequests \in Nat
    /\ Bodies \subseteq [sources : Seq(Sources), target : BOOLEAN]
    /\ \A body \in Patches : PatchOK(body)
    /\ None \notin Snapshots /\ None \notin Plans /\ None # "" /\ NoDoc \notin Documents

VARIABLES
    doc,        \* the stored document
    snapshots,  \* number of snapshots that SaveDiscovery has stored
    migrations, \* plans that SaveMigration has stored: id -> its gate
    requests,   \* number of requests so far
    actor,      \* writer -> what it does, its request and its copy
    dirty,      \* history: writer -> fields changed by others since it read
    raced       \* history: a write replaced what others had changed meanwhile

wdvars == <<doc, snapshots, migrations, requests, actor, dirty, raced>>

JobKinds == {"discovery", "graph", "simulation", "plan"}
NewDocument(body) ==
    [sources |-> body.sources, target |-> body.target, last |-> NoSnapshots,
     settings |-> [required |-> FALSE, by |-> FALSE],
     approval |-> [status |-> None, synced |-> FALSE], selected |-> {},
     snaps |-> NoSnapshots, graph |-> None, sim |-> None, plan |-> None,
     reports |-> 0, status |-> "draft"]
Writer(step, kind, req, copy) ==
    [step |-> step, kind |-> kind, req |-> req, copy |-> copy, ids |-> NoSnapshots, plan |-> 0]
IdleWriter == Writer("idle", None, None, None)

\* The document d with the given fields replaced.
With(d, new) == [f \in Fields |-> IF f \in DOMAIN new THEN new[f] ELSE d[f]]

Ids(seq) == {seq[i] : i \in DOMAIN seq}
Discovered(d) == {s \in Sources : d.snaps[s] # 0}
\* workspaceInventory: the snapshots of the document, also of sources that are gone.
workspaceInventory(d) == UNION {VmsOf[s] : s \in Discovered(d)}

-----------------------------------------------------------------------------
(* Parts of the handlers and jobs.                                          *)

advanceWorkspaceStatus(current, next) ==
    IF statusWeight[next] > statusWeight[current] THEN next ELSE current

\* normalizeWorkspace: an approval without a status is pending.
normalizeWorkspace(d) ==
    IF d.approval.status # "" THEN d
    ELSE With(d, [approval |-> [status |-> "pending", synced |-> d.approval.synced]])

\* validateWorkspace: the ids of the source connections differ.
validateWorkspace(d) == Cardinality(Ids(d.sources)) = Len(d.sources)

\* validateWorkspaceJobRequest, when the job is queued; a simulation takes its target
\* from the workspace, since requests with a target of their own are left out.
validateWorkspaceJobRequest(d, kind, req) ==
    /\ req.sources \subseteq Ids(d.sources)
    /\ kind = "discovery" => d.sources # <<>>
    /\ kind # "discovery" => Discovered(d) # {}
    /\ kind \in {"simulation", "plan"} => d.target

\* workspaceSourceConnections: places of the source connections with one of the ids.
workspaceSourceConnections(d, ids) == {i \in DOMAIN d.sources : ids = {} \/ d.sources[i] \in ids}
workspaceSelectedWorkloadIDs(d, ids) == IF ids # {} THEN ids ELSE d.selected

\* addressToConnectionID: of several connections with one address, the last one.
LastWithAddress(d, places, i) ==
    CHOOSE k \in places :
       /\ AddressOf[d.sources[k]] = AddressOf[d.sources[i]]
       /\ \A j \in places : j > k => AddressOf[d.sources[j]] # AddressOf[d.sources[i]]

\* The request of a simulation: its own scope (VMs, or all) or the selection.
SimulatedVms(d, req) ==
    IF req.selected # {} THEN req.selected
    ELSE IF req.scope # None THEN req.scope
    ELSE d.selected

\* syncWorkspacePlanApproval: the entry of the plan stage, whatever it said before.
syncWorkspacePlanApproval(d) ==
    IF d.settings.required
    THEN [status |-> IF d.settings.by THEN "approved" ELSE "pending", synced |-> TRUE]
    ELSE d.approval

\* upsertWorkspaceSnapshot: one snapshot per source connection.
upsertWorkspaceSnapshot(snaps, ids) == [s \in Sources |-> IF ids[s] # 0 THEN ids[s] ELSE snaps[s]]

\* Mutant: the connection keeps the first snapshot it named.
keepFirstSnapshot(last, ids) == [s \in Sources |-> IF last[s] = 0 THEN ids[s] ELSE last[s]]

\* The connection, if it is still there, names its snapshot.
updateWorkspaceSourceConnectionDiscovery(last, ids) ==
    [s \in Sources |-> IF ids[s] # 0 THEN ids[s] ELSE last[s]]

\* Mutant: a field that the body leaves out is cleared.
applyAll(d, body) ==
    [f \in Fields |-> IF f \in DOMAIN body THEN body[f]
                      ELSE IF f = "selected" THEN {} ELSE d[f]]

\* PATCH: the fields of the body replace those of the copy.  New source connections
\* come without a last snapshot.
applyPatch(d, body) ==
    [f \in Fields |-> IF f \in DOMAIN body THEN body[f]
                      ELSE IF f = "last" /\ "sources" \in DOMAIN body THEN NoSnapshots
                      ELSE d[f]]

\* Whether the plan made under the settings s awaits approval.
GateOf(s) == IF s.required /\ ~s.by THEN "pending" ELSE "clear"

\* The fields that each kind of writer replaces in its copy.
ApplyGraph(d) ==
    [graph |-> d.snaps, status |-> advanceWorkspaceStatus(d.status, "graph_ready")]
ApplySimulation(d, req) ==
    [selected |-> IF req.selected # {} THEN req.selected
                  ELSE IF d.selected = {} THEN SimulatedVms(d, req) ELSE d.selected,
     sim |-> d.snaps, status |-> advanceWorkspaceStatus(d.status, "simulated")]
ApplyPlan(d, req, id) ==
    [selected |-> workspaceSelectedWorkloadIDs(d, req.selected),
     plan |-> [id |-> id, base |-> d.snaps, required |-> d.settings.required,
               gate |-> GateOf(d.settings)],
     approval |-> syncWorkspacePlanApproval(d),
     status |-> advanceWorkspaceStatus(d.status, "planned")]
ApplyDiscovery(d, ids) ==
    [snaps |-> upsertWorkspaceSnapshot(d.snaps, ids),
     last |-> updateWorkspaceSourceConnectionDiscovery(d.last, ids),
     status |-> IF ids # NoSnapshots THEN advanceWorkspaceStatus(d.status, "discovered") ELSE d.status]
ApplyReport(d) ==
    [reports |-> d.reports + 1, status |-> advanceWorkspaceStatus(d.status, "reported")]

Apply(a) ==
    CASE a.kind = "patch" -> applyPatch(a.copy, a.req)
      [] a.kind = "discovery" -> With(a.copy, ApplyDiscovery(a.copy, a.ids))
      [] a.kind = "graph" -> With(a.copy, ApplyGraph(a.copy))
      [] a.kind = "simulation" -> With(a.copy, ApplySimulation(a.copy, a.req))
      [] a.kind = "plan" -> With(a.copy, ApplyPlan(a.copy, a.req, a.plan))
      [] a.kind = "report" -> With(a.copy, ApplyReport(a.copy))

-----------------------------------------------------------------------------
(* Actions.                                                                 *)

\* Whoever holds a copy now misses the fields in F.
Holds(x) == actor[x].step \in {"work", "write"}
Outdate(w, F) ==
    dirty' = [x \in Writers |-> IF x # w /\ Holds(x) THEN dirty[x] \cup F
                                ELSE IF x = w THEN {} ELSE dirty[x]]
Answered(w) == actor' = [actor EXCEPT ![w] = IdleWriter]
Request == requests < MaxRequests /\ requests' = requests + 1

\* POST, DELETE of the workspace.  A second POST with the id is a conflict.
CreateWorkspace ==
    /\ doc = NoDoc /\ \E body \in Bodies : validateWorkspace(body) /\ doc' = NewDocument(body)
    /\ raced' = (raced \/ \E x \in Writers : actor[x].step # "idle")
    /\ UNCHANGED <<snapshots, migrations, requests, actor, dirty>>
DeleteWorkspace ==
    /\ doc # NoDoc /\ doc' = NoDoc
    /\ dirty' = [x \in Writers |-> IF Holds(x) THEN Fields ELSE {}]
    /\ UNCHANGED <<snapshots, migrations, requests, actor, raced>>

\* handleWorkspaceJobs: the request is checked against the document of now.
QueueJob(w) ==
    /\ actor[w].step = "idle" /\ doc # NoDoc /\ Request
    /\ \E kind \in JobKinds, selected \in Selections, scope \in Selections \cup {None},
          sources \in {{}} \cup {{s} : s \in Sources} :
         LET req == [selected |-> selected, scope |-> scope, sources |-> sources] IN
         /\ kind # "simulation" => scope = None
         /\ kind \in {"discovery", "graph"} => selected = {}
         /\ kind # "discovery" => sources = {}
         /\ validateWorkspaceJobRequest(doc, kind, req)
         /\ actor' = [actor EXCEPT ![w] = Writer("queued", kind, req, None)]
    /\ UNCHANGED <<doc, snapshots, migrations, dirty, raced>>

\* runWorkspaceJob reads the document, later.
ReadDocument(w) ==
    /\ actor[w].step = "queued"
    /\ IF doc = NoDoc THEN Answered(w)
       ELSE actor' = [actor EXCEPT ![w] = Writer("work", actor[w].kind, actor[w].req, doc)]
    /\ dirty' = [dirty EXCEPT ![w] = {}]
    /\ UNCHANGED <<requests, doc, snapshots, migrations, raced>>

\* handleWorkspaceDocument (PATCH) and handleWorkspaceReportExport read it and
\* check the request: an invalid one changes nothing.
ReadRequest(w) ==
    /\ actor[w].step = "idle" /\ doc # NoDoc /\ Request
    /\ \/ \E body \in Patches :
            /\ validateWorkspace(applyPatch(doc, body))
            /\ actor' = [actor EXCEPT ![w] = Writer("write", "patch", body, doc)]
       \/ /\ doc.reports < MaxReports
          /\ actor' = [actor EXCEPT ![w] = Writer("write", "report", None, doc)]
    /\ dirty' = [dirty EXCEPT ![w] = {}]
    /\ UNCHANGED <<doc, snapshots, migrations, raced>>

\* executeWorkspaceDiscoveryJob: some of the sources answer, and a snapshot of each
\* is saved in order; of two sources with one address the later one gets both.
DiscoverSources(w) ==
    LET a == actor[w]
        places == workspaceSourceConnections(a.copy, a.req.sources)
    IN  /\ a.step = "work" /\ a.kind = "discovery"
        /\ \/ places = {} /\ Answered(w) /\ UNCHANGED snapshots
           \/ /\ places # {}
              /\ \E answered \in SUBSET places :
                   LET mine(t) == {i \in answered : a.copy.sources[LastWithAddress(a.copy, places, i)] = t}
                       upTo(t) == {i \in answered : \E j \in mine(t) : i <= j}
                       ids == [t \in Sources |->
                                 IF mine(t) = {} THEN 0 ELSE snapshots + Cardinality(upTo(t))]
                   IN  /\ snapshots + Cardinality(answered) <= MaxSnapshots
                       /\ snapshots' = snapshots + Cardinality(answered)
                       /\ actor' = [actor EXCEPT ![w] =
                                      [Writer("write", a.kind, a.req, a.copy) EXCEPT !.ids = ids]]
        /\ UNCHANGED <<requests, doc, migrations, dirty, raced>>

\* executeWorkspaceGraphJob and executeWorkspaceSimulationJob work on the snapshots
\* of the copy; a simulation needs a target.
Assess(w) ==
    /\ actor[w].step = "work" /\ actor[w].kind \in {"graph", "simulation"}
    /\ IF actor[w].kind = "simulation" /\ ~actor[w].copy.target
       THEN Answered(w)
       ELSE actor' = [actor EXCEPT ![w] = Writer("write", actor[w].kind, actor[w].req, actor[w].copy)]
    /\ UNCHANGED <<requests, doc, snapshots, migrations, dirty, raced>>

\* buildWorkspaceMigrationSpec, buildWorkspaceSelectors, BuildStateFromInventory:
\* there is a source and a target, the selection is in the inventory, some workload matches.
Plannable(a) ==
    LET selected == workspaceSelectedWorkloadIDs(a.copy, a.req.selected)
    IN  /\ a.copy.sources # <<>> /\ a.copy.target
        /\ selected \subseteq workspaceInventory(a.copy)
        /\ workspaceInventory(a.copy) # {}

\* executeWorkspacePlanJob up to SaveMigration, whose error ends the job.
SavePlan(w) ==
    /\ actor[w].step = "work" /\ actor[w].kind = "plan"
    /\ \/ Answered(w) /\ UNCHANGED migrations
       \/ /\ Plannable(actor[w]) /\ Len(migrations) < MaxPlans
          /\ migrations' = Append(migrations, GateOf(actor[w].copy.settings))
          /\ actor' = [actor EXCEPT ![w] =
                         [Writer("write", "plan", actor[w].req, actor[w].copy) EXCEPT
                            !.plan = Len(migrations) + 1]]
    /\ UNCHANGED <<requests, doc, snapshots, dirty, raced>>

\* UpdateWorkspace: the whole document, if the workspace (or another one with its id)
\* is there.
UpdateWorkspace(w) ==
    /\ actor[w].step = "write" /\ Answered(w)
    /\ IF doc = NoDoc
       THEN /\ UNCHANGED <<doc, raced>> /\ dirty' = [dirty EXCEPT ![w] = {}]
       ELSE /\ doc' = normalizeWorkspace(Apply(actor[w]))
            /\ Outdate(w, {f \in Fields : doc'[f] # doc[f]})
            /\ raced' = (raced \/ dirty[w] # {})
    /\ UNCHANGED <<requests, snapshots, migrations>>

\* The store fails: the writer gives up, what it saved before stays.
UpdateFails(w) ==
    /\ actor[w].step = "write" /\ Answered(w)
    /\ dirty' = [dirty EXCEPT ![w] = {}]
    /\ UNCHANGED <<requests, doc, snapshots, migrations, raced>>

WDInit ==
    /\ \E body \in Bodies : validateWorkspace(body) /\ doc = NewDocument(body)
    /\ snapshots = 0 /\ migrations = <<>> /\ requests = 0
    /\ actor = [w \in Writers |-> IdleWriter] /\ dirty = [w \in Writers |-> {}] /\ raced = FALSE

WDNext ==
    \/ CreateWorkspace \/ DeleteWorkspace
    \/ \E w \in Writers :
         \/ QueueJob(w) \/ ReadDocument(w) \/ ReadRequest(w) \/ DiscoverSources(w) \/ Assess(w)
         \/ SavePlan(w) \/ UpdateWorkspace(w) \/ UpdateFails(w)

WDSpec == WDInit /\ [][WDNext]_wdvars

-----------------------------------------------------------------------------
(* Properties.                                                              *)

\* The stored document has its fields, only snapshots that SaveDiscovery has stored,
\* whichever stale copy was written last, and a selection that some request made; a
\* writer that works or writes has a copy it read.
WDTypeOK ==
    /\ doc # NoDoc => doc \in Documents /\ \A s \in Sources : doc.snaps[s] <= snapshots
    /\ \A w \in Writers : Holds(w) => actor[w].copy \in Documents

Artifacts(d) == {f \in {"graph", "sim", "plan"} : d[f] # None}
WeightOf == [graph |-> 2, sim |-> 3, plan |-> 4]
Base(d, f) == IF f = "plan" THEN d.plan.base ELSE d[f]

Backed(d) ==
    /\ \A f \in Artifacts(d) : statusWeight[d.status] >= WeightOf[f]
    /\ CASE d.status = "discovered" -> Discovered(d) # {}
         [] d.status = "graph_ready" -> d.graph # None
         [] d.status = "simulated" -> d.sim # None
         [] d.status = "planned" -> d.plan # None
         [] d.status = "reported" -> d.reports > 0
         [] OTHER -> Discovered(d) = {} /\ Artifacts(d) = {} /\ d.reports = 0

\* The status never claims a stage without its result in the same document, and
\* never stays behind a result: stale copies that overwrite the document take
\* status and results back together.
StatusIsBacked == doc # NoDoc => Backed(doc)

FollowsSnapshots(d) ==
    \A s \in Sources :
      /\ \A f \in Artifacts(d) : Base(d, f)[s] <= d.snaps[s]
      /\ d.last[s] # 0 => d.last[s] = d.snaps[s]

\* Results are never about snapshots newer than those of their document, and a
\* source connection that names a last snapshot names the one in the inventory.
ResultsFollowSnapshots == doc # NoDoc => FollowsSnapshots(doc)

\* There is a graph, simulation or plan without a snapshot to base it on only if a
\* stale copy took the snapshots back, or the workspace was created again, after
\* the job was queued.
AssessedAfterDiscovery ==
    doc # NoDoc /\ Artifacts(doc) # {} /\ Discovered(doc) = {} => raced

Recorded(d) ==
    d.plan # None =>
      /\ d.plan.id \in DOMAIN migrations
      /\ d.plan.gate = migrations[d.plan.id]
      /\ d.plan.required /\ d.approval.synced =>
            d.approval.status = IF d.plan.gate = "pending" THEN "pending" ELSE "approved"

\* The plan in the document is a stored migration that waits for approval exactly
\* if the plan does, and the approval entry that came with it says the same.
PlanIsRecorded == doc # NoDoc => Recorded(doc)

\* Although whole copies overwrite each other, the document that is stored is one
\* that belongs together: status, snapshots, results, plan and approval fit, and
\* the plan is the migration that was saved for it.
DocumentsAreConsistent ==
  /\ WDTypeOK
  /\ StatusIsBacked
  /\ ResultsFollowSnapshots
  /\ AssessedAfterDiscovery
  /\ PlanIsRecorded

\* What each kind of writer is there to change.
Remit(a) ==
    CASE a.kind = "patch" -> DOMAIN a.req \cup (IF "sources" \in DOMAIN a.req THEN {"last"} ELSE {})
      [] a.kind = "discovery" -> {"snaps", "last"}
      [] a.kind = "graph" -> {"graph"}
      [] a.kind = "simulation" -> {"sim"} \cup (IF a.req.selected # {} \/ a.copy.selected = {} THEN {"selected"} ELSE {})
      [] a.kind = "plan" -> {"plan", "approval"} \cup (IF a.req.selected # {} THEN {"selected"} ELSE {})
      [] a.kind = "report" -> {"reports"}

\* A write changes nothing beyond its remit, and never takes the status back, except
\* for fields that others have changed since the writer read the document.
LostUpdatesAreRaced ==
    [][\A w \in Writers :
         (actor[w].step = "write" /\ actor'[w].step = "idle" /\ doc # NoDoc /\ doc' # NoDoc) =>
            /\ \A f \in Fields \ (Remit(actor[w]) \cup dirty[w] \cup {"status"}) : doc'[f] = doc[f]
            /\ statusWeight[doc'.status] >= statusWeight[doc.status] \/ "status" \in dirty[w]]_wdvars
=============================================================================
