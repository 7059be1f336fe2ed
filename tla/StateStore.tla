----------------------------- MODULE StateStore -----------------------------
(***************************************************************************)
(* The two state stores of Viaduct (internal/store): MemoryStore, whose     *)
(* operations are atomic under a mutex, and PostgresStore, whose operations *)
(* are sequences of statements that commit one by one.  The administrators' *)
(* handlers that read a tenant and write it back (internal/api/             *)
(* tenant_admin.go) and the start-up migration of stored credentials are    *)
(* included.                                                               *)
(*                                                                         *)
(* Tables are abstracted to the rows that exist; their contents are not      *)
(* modelled (so UpdateWorkspace, which only rewrites a row, changes no       *)
(* table here).  Snapshots and audit events get a fresh UUID on every save   *)
(* and are counted.  PostgreSQL runs at READ COMMITTED: a statement sees      *)
(* what is committed when it starts, a transaction's writes appear at its    *)
(* commit, a row that an open transaction has deleted is locked.            *)
(***************************************************************************)
EXTENDS Naturals, FiniteSets

CONSTANTS Backends,       \* which stores openStateStore may open
          Tenants, DefaultTenant, Accounts, Root, Hashes, None,
          MigrationIDs, WorkspaceIDs, JobIDs,
          MaxSnapshots, MaxMigrations,  \* the quotas of every tenant (0: none)
          Clients,        \* concurrent requests
          MaxCalls,       \* bound: calls in a behaviour
          MaxCrashes      \* bound: process restarts in a behaviour

ASSUME StoreAssumption ==
    /\ DefaultTenant \in Tenants /\ Root \notin Accounts
    /\ None \notin Hashes /\ None \notin Tenants \X (Accounts \cup {Root})
    /\ None \notin [Accounts \cup {Root} -> Hashes \cup {None}]
    /\ Backends \subseteq {"memory", "postgres"}
    /\ MaxSnapshots \in Nat /\ MaxMigrations \in Nat
    /\ IsFiniteSet(Clients) /\ MaxCalls \in Nat /\ MaxCrashes \in Nat

VARIABLES
    backend,     \* the store that this process opened
    phase,       \* "closed", "loaded", "seeded", "open", "failed"
    tenants,     \* tenant -> credentials, None when absent
    plain,       \* owners whose key is still stored in plaintext (legacy rows)
    registry,    \* credential_hashes: digest -> <<tenant, owner>>, None
    snapshots,   \* tenant -> number of snapshots
    migrations,  \* set of <<tenant, id>>
    points,      \* recovery points: set of <<tenant, migration id>>
    workspaces,  \* set of <<tenant, id>>
    jobs,        \* set of <<tenant, workspace, id>>
    audit,       \* tenant -> number of audit events
    call,        \* client -> its call in progress
    calls,       \* calls begun so far
    crashes,     \* restarts so far
    raced,       \* history: tenants and workspaces deleted under a save
    acked,       \* history: key that a finished handler reported per owner
    overlapped   \* history: tenants on which two handlers overlapped

documents == <<snapshots, migrations, points, workspaces, jobs, audit>>
history == <<raced, acked, overlapped>>
vars == <<backend, phase, tenants, plain, registry, documents, call, calls,
          crashes, history>>

Registry == INSTANCE TenantRegistry
Owners == Registry!Owners
Unique == Registry!Unique(tenants)

Idle == [op |-> "none"]
Busy(c) == call[c].op # "none"
At(c, op, step) == call[c].op = op /\ call[c].step = step

Saves == {"SaveDiscovery", "SaveMigration", "SaveRecoveryPoint",
          "SaveAuditEvent", "CreateWorkspace", "SaveWorkspaceJob"}

Handlers == {"CreateServiceAccount", "RotateServiceAccountKey"}

Return(c) == call' = [call EXCEPT ![c] = Idle]
Goto(c, step) == call' = [call EXCEPT ![c].step = step]

\* A request that the handlers turn into one call of the store.  A call on
\* the memory store is one step; a PostgreSQL call starts at its first
\* statement.  arg is the identifier or the credentials the call is about.
Requests ==
    [op : {"SaveDiscovery", "SaveAuditEvent", "DeleteTenant"},
     t : Tenants, arg : {None}]
  \cup [op : {"SaveMigration", "SaveRecoveryPoint"}, t : Tenants, arg : MigrationIDs]
  \cup [op : {"CreateWorkspace", "UpdateWorkspace", "DeleteWorkspace"},
        t : Tenants, arg : WorkspaceIDs]
  \cup [op : {"SaveWorkspaceJob"}, t : Tenants, arg : WorkspaceIDs \X JobIDs]
  \cup (UNION {[op : {"CreateTenant"}, t : {t}, arg : Registry!InitialCredentials(t)] :
               t \in Tenants})
  \cup [op : Handlers, t : Tenants, arg : Accounts \X Hashes]

FirstStep(op) ==
    CASE op \in Saves -> "ensure"
      [] op = "CreateTenant" -> "validate"
      [] op \in Handlers -> "read"
      [] op = "UpdateWorkspace" -> "check"
      [] OTHER -> "rows"

Begin(c) ==
    /\ phase = "open" /\ ~Busy(c) /\ calls < MaxCalls
    /\ \E r \in Requests :
          call' = [call EXCEPT ![c] = [op |-> r.op, t |-> r.t, arg |-> r.arg,
                                       step |-> FirstStep(r.op), keep |-> None]]
    /\ calls' = calls + 1
    /\ UNCHANGED <<backend, phase, tenants, plain, registry, documents, crashes,
                   history>>

-----------------------------------------------------------------------------
(* Guards shared by both stores.                                           *)

Exists(t) == tenants[t] # None
RowKey(c) == <<call[c].t, call[c].arg>>
WorkspaceOf(c) == <<call[c].t, call[c].arg[1]>>
JobKey(c) == <<call[c].t, call[c].arg[1], call[c].arg[2]>>

\* Mutant: the quota admits one snapshot too many.
snapshotQuotaOffByOne(t) == MaxSnapshots = 0 \/ snapshots[t] <= MaxSnapshots

snapshotQuotaLeft(t) == MaxSnapshots = 0 \/ snapshots[t] < MaxSnapshots
migrationCount(t) == Cardinality({m \in migrations : m[1] = t})
migrationQuotaLeft(t) == MaxMigrations = 0 \/ migrationCount(t) < MaxMigrations

InsertSnapshot(t) == snapshots' = [snapshots EXCEPT ![t] = @ + 1]

\* Mutant: the cascade forgets the recovery points.
RowsOfWithoutPoints(t) ==
    [snapshots |-> snapshots[t], audit |-> audit[t],
     migrations |-> {m \in migrations : m[1] = t}, points |-> {},
     workspaces |-> {w \in workspaces : w[1] = t}, jobs |-> {j \in jobs : j[1] = t},
     hashes |-> {h \in Hashes : registry[h] # None /\ registry[h][1] = t}]

\* What DeleteTenant removes of tenant t, as a statement sees it now.
RowsOf(t) == [snapshots |-> snapshots[t], audit |-> audit[t],
              migrations |-> {m \in migrations : m[1] = t},
              points |-> {p \in points : p[1] = t},
              workspaces |-> {w \in workspaces : w[1] = t},
              jobs |-> {j \in jobs : j[1] = t},
              hashes |-> {h \in Hashes : registry[h] # None /\ registry[h][1] = t}]

RemoveRows(t, rows) ==
    /\ snapshots' = [snapshots EXCEPT ![t] = @ - rows.snapshots]
    /\ audit' = [audit EXCEPT ![t] = @ - rows.audit]
    /\ migrations' = migrations \ rows.migrations
    /\ points' = points \ rows.points
    /\ workspaces' = workspaces \ rows.workspaces
    /\ jobs' = jobs \ rows.jobs

Created(t, cred) ==
    IF ~Exists(t) /\ Registry!validateCredentialUniqueness(tenants, t, cred)
    THEN [tenants EXCEPT ![t] = cred] ELSE tenants

Updated(t, cred) ==
    IF Exists(t) /\ Registry!validateCredentialUniqueness(tenants, t, cred)
    THEN [tenants EXCEPT ![t] = cred] ELSE tenants

-----------------------------------------------------------------------------
(* History: what the callers were told, and who was interrupted.            *)

WithAccount(cred, arg) == [cred EXCEPT ![arg[1]] = arg[2]]

\* A handler that has read tenant t and has not written it back yet.
HandlerPending(c, t) ==
    \E d \in Clients \ {c} : /\ call[d].op \in Handlers /\ call[d].t = t
                             /\ call[d].step # "read"

\* Tenant t was written (or not) by client c and its caller was told so.
Acknowledge(c, t, cred) ==
    IF tenants' = tenants
    THEN UNCHANGED <<acked, overlapped>>
    ELSE /\ acked' = [acked EXCEPT ![t] = cred]
         /\ overlapped' = IF HandlerPending(c, t) THEN overlapped \cup {t} ELSE overlapped

\* Saves and deletes of one tenant or workspace that overlap.
KeysOf(c) == {<<call[c].t>>} \cup
             (IF call[c].op = "SaveWorkspaceJob" THEN {WorkspaceOf(c)} ELSE {})
BeingSaved ==
    UNION {IF call[d].op \in Saves /\ call[d].step # "ensure" THEN KeysOf(d) ELSE {} :
           d \in Clients}
BeingDeleted ==
    UNION {CASE At(d, "DeleteTenant", "commit") -> {<<call[d].t>>}
             [] At(d, "DeleteWorkspace", "commit") -> {RowKey(d)}
             [] OTHER -> {} : d \in Clients}

-----------------------------------------------------------------------------
(* The service account handlers (tenant_admin.go) read the tenant, change   *)
(* one account of what they read and write the whole tenant back.           *)

ReadTenant(c, op, known) ==
    /\ phase = "open" /\ At(c, op, "read")
    /\ LET t == call[c].t IN
       IF Exists(t) /\ (tenants[t][call[c].arg[1]] # None) = known
       THEN call' = [call EXCEPT ![c].step = "validate",
                                 ![c].keep = WithAccount(tenants[t], call[c].arg)]
       ELSE Return(c)
    /\ UNCHANGED <<backend, phase, tenants, plain, registry, documents, calls,
                   crashes, history>>

\* ensureUniqueServiceAccount: the identifier is new.
CreateServiceAccount(c) == ReadTenant(c, "CreateServiceAccount", FALSE)

\* The rotated account has to exist.
RotateServiceAccountKey(c) == ReadTenant(c, "RotateServiceAccountKey", TRUE)

-----------------------------------------------------------------------------
(* MemoryStore: every operation is one step under s.mu.                     *)

Memory(c, op) == backend = "memory" /\ phase = "open" /\ call[c].op = op
MemoryRest == UNCHANGED <<backend, phase, plain, registry, calls, crashes, raced>>
NoHistory == UNCHANGED <<acked, overlapped>>

MemSaveDiscovery(c) ==
    /\ Memory(c, "SaveDiscovery")
    /\ LET t == call[c].t IN
       IF Exists(t) /\ snapshotQuotaLeft(t)
       THEN InsertSnapshot(t)
       ELSE UNCHANGED snapshots
    /\ Return(c) /\ MemoryRest /\ NoHistory
    /\ UNCHANGED <<tenants, migrations, points, workspaces, jobs, audit>>

MemSaveMigration(c) ==
    /\ Memory(c, "SaveMigration")
    /\ LET t == call[c].t IN
       IF Exists(t) /\ (RowKey(c) \in migrations \/ migrationQuotaLeft(t))
       THEN migrations' = migrations \cup {RowKey(c)}
       ELSE UNCHANGED migrations
    /\ Return(c) /\ MemoryRest /\ NoHistory
    /\ UNCHANGED <<tenants, snapshots, points, workspaces, jobs, audit>>

MemSaveRecoveryPoint(c) ==
    /\ Memory(c, "SaveRecoveryPoint")
    /\ points' = IF Exists(call[c].t) THEN points \cup {RowKey(c)} ELSE points
    /\ Return(c) /\ MemoryRest /\ NoHistory
    /\ UNCHANGED <<tenants, snapshots, migrations, workspaces, jobs, audit>>

MemSaveAuditEvent(c) ==
    /\ Memory(c, "SaveAuditEvent")
    /\ audit' = IF Exists(call[c].t) THEN [audit EXCEPT ![call[c].t] = @ + 1] ELSE audit
    /\ Return(c) /\ MemoryRest /\ NoHistory
    /\ UNCHANGED <<tenants, snapshots, migrations, points, workspaces, jobs>>

MemCreateWorkspace(c) ==
    /\ Memory(c, "CreateWorkspace")
    /\ workspaces' = IF Exists(call[c].t) THEN workspaces \cup {RowKey(c)} ELSE workspaces
    /\ Return(c) /\ MemoryRest /\ NoHistory
    /\ UNCHANGED <<tenants, snapshots, migrations, points, jobs, audit>>

\* Rewrites an existing row or reports that it is not found.
MemUpdateWorkspace(c) ==
    /\ Memory(c, "UpdateWorkspace")
    /\ Return(c) /\ MemoryRest /\ NoHistory /\ UNCHANGED <<tenants, documents>>

MemDeleteWorkspace(c) ==
    /\ Memory(c, "DeleteWorkspace")
    /\ workspaces' = workspaces \ {RowKey(c)}
    /\ jobs' = IF RowKey(c) \in workspaces
               THEN {j \in jobs : <<j[1], j[2]>> # RowKey(c)}
               ELSE jobs
    /\ Return(c) /\ MemoryRest /\ NoHistory
    /\ UNCHANGED <<tenants, snapshots, migrations, points, audit>>

\* New jobs need their workspace; existing jobs may still be updated.
MemSaveWorkspaceJob(c) ==
    /\ Memory(c, "SaveWorkspaceJob")
    /\ IF Exists(call[c].t) /\ (JobKey(c) \in jobs \/ WorkspaceOf(c) \in workspaces)
       THEN jobs' = jobs \cup {JobKey(c)}
       ELSE UNCHANGED jobs
    /\ Return(c) /\ MemoryRest /\ NoHistory
    /\ UNCHANGED <<tenants, snapshots, migrations, points, workspaces, audit>>

MemCreateTenant(c) ==
    /\ Memory(c, "CreateTenant")
    /\ tenants' = Created(call[c].t, call[c].arg)
    /\ Acknowledge(c, call[c].t, call[c].arg)
    /\ Return(c) /\ MemoryRest /\ UNCHANGED documents

MemUpdateTenant(c) ==
    /\ backend = "memory" /\ phase = "open"
    /\ call[c].op \in Handlers /\ call[c].step = "validate"
    /\ tenants' = Updated(call[c].t, call[c].keep)
    /\ Acknowledge(c, call[c].t, WithAccount(acked[call[c].t], call[c].arg))
    /\ Return(c) /\ MemoryRest /\ UNCHANGED documents

MemDeleteTenant(c) ==
    /\ Memory(c, "DeleteTenant")
    /\ LET t == call[c].t IN
       IF t # DefaultTenant /\ Exists(t)
       THEN /\ tenants' = [tenants EXCEPT ![t] = None]
            /\ RemoveRows(t, RowsOf(t))
       ELSE UNCHANGED <<tenants, documents>>
    /\ Acknowledge(c, call[c].t, None)
    /\ Return(c) /\ MemoryRest

MemoryOperation(c) ==
    \/ MemSaveDiscovery(c) \/ MemSaveMigration(c) \/ MemSaveRecoveryPoint(c)
    \/ MemSaveAuditEvent(c) \/ MemCreateWorkspace(c) \/ MemUpdateWorkspace(c)
    \/ MemDeleteWorkspace(c) \/ MemSaveWorkspaceJob(c)
    \/ MemCreateTenant(c) \/ MemUpdateTenant(c) \/ MemDeleteTenant(c)

-----------------------------------------------------------------------------
(* PostgresStore: one action per statement or transaction.                  *)

Statement(c, op, step) ==
    backend = "postgres" /\ phase = "open" /\ At(c, op, step)
StoreRest == UNCHANGED <<backend, phase, plain, calls, crashes>>
ReadOnly == UNCHANGED <<tenants, registry, documents, history>>
Write(c) == /\ raced' = raced \cup (KeysOf(c) \cap BeingDeleted)
            /\ StoreRest /\ UNCHANGED <<tenants, registry, acked, overlapped>>

\* Rows that a transaction in progress has deleted are locked until it ends.
LockedHashes ==
    UNION {IF At(d, "DeleteTenant", "commit") THEN call[d].keep.hashes ELSE {} :
           d \in Clients}
LockedJobs ==
    UNION {CASE At(d, "DeleteTenant", "commit") -> call[d].keep.jobs
             [] At(d, "DeleteWorkspace", "commit") -> call[d].keep
             [] OTHER -> {} : d \in Clients}

\* Mutant: ensuring the default tenant writes it anew.
PgEnsureTenantOverwrites(c) ==
    /\ \E op \in Saves : Statement(c, op, "ensure")
    /\ LET t == call[c].t IN
       /\ tenants' = IF t = DefaultTenant
                     THEN [tenants EXCEPT ![t] = Registry!NoCredentials] ELSE tenants
       /\ acked' = IF Exists(t) THEN acked
                   ELSE [acked EXCEPT ![t] = tenants'[t]]
       /\ IF tenants'[t] = None THEN Return(c) ELSE Goto(c, "check")
    /\ StoreRest /\ UNCHANGED <<registry, documents, raced, overlapped>>

\* ensureTenant: the default tenant is inserted when it is missing.
PgEnsureTenant(c) ==
    /\ \E op \in Saves : Statement(c, op, "ensure")
    /\ LET t == call[c].t IN
       /\ tenants' = IF t = DefaultTenant /\ ~Exists(t)
                     THEN [tenants EXCEPT ![t] = Registry!NoCredentials] ELSE tenants
       /\ acked' = IF tenants' = tenants THEN acked
                   ELSE [acked EXCEPT ![t] = Registry!NoCredentials]
       /\ IF tenants'[t] = None THEN Return(c) ELSE Goto(c, "check")
    /\ StoreRest /\ UNCHANGED <<registry, documents, raced, overlapped>>

\* SELECT COUNT(*) against the quota, when there is one.
PgSaveDiscoveryCount(c) ==
    /\ Statement(c, "SaveDiscovery", "check")
    /\ IF snapshotQuotaLeft(call[c].t) THEN Goto(c, "write") ELSE Return(c)
    /\ StoreRest /\ ReadOnly

PgSaveDiscoveryInsert(c) ==
    /\ Statement(c, "SaveDiscovery", "write")
    /\ InsertSnapshot(call[c].t)
    /\ Return(c) /\ Write(c)
    /\ UNCHANGED <<migrations, points, workspaces, jobs, audit>>

\* migrationExists, then migrationCount: an existing record needs no quota.
PgSaveMigrationExists(c) ==
    /\ Statement(c, "SaveMigration", "check")
    /\ Goto(c, IF MaxMigrations = 0 \/ RowKey(c) \in migrations THEN "write" ELSE "count")
    /\ StoreRest /\ ReadOnly

PgSaveMigrationCount(c) ==
    /\ Statement(c, "SaveMigration", "count")
    /\ IF migrationQuotaLeft(call[c].t) THEN Goto(c, "write") ELSE Return(c)
    /\ StoreRest /\ ReadOnly

PgSaveMigrationUpsert(c) ==
    /\ Statement(c, "SaveMigration", "write")
    /\ migrations' = migrations \cup {RowKey(c)}
    /\ Return(c) /\ Write(c)
    /\ UNCHANGED <<snapshots, points, workspaces, jobs, audit>>

PgSaveRecoveryPointUpsert(c) ==
    /\ Statement(c, "SaveRecoveryPoint", "check")
    /\ points' = points \cup {RowKey(c)}
    /\ Return(c) /\ Write(c)
    /\ UNCHANGED <<snapshots, migrations, workspaces, jobs, audit>>

PgSaveAuditEventInsert(c) ==
    /\ Statement(c, "SaveAuditEvent", "check")
    /\ audit' = [audit EXCEPT ![call[c].t] = @ + 1]
    /\ Return(c) /\ Write(c)
    /\ UNCHANGED <<snapshots, migrations, points, workspaces, jobs>>

\* An insert that meets its own key fails; the row is there either way.
PgCreateWorkspaceInsert(c) ==
    /\ Statement(c, "CreateWorkspace", "check")
    /\ workspaces' = workspaces \cup {RowKey(c)}
    /\ Return(c) /\ Write(c)
    /\ UNCHANGED <<snapshots, migrations, points, jobs, audit>>

\* GetWorkspace before the UPDATE; neither checks the tenant.
PgUpdateWorkspaceRead(c) ==
    /\ Statement(c, "UpdateWorkspace", "check")
    /\ IF RowKey(c) \in workspaces THEN Goto(c, "write") ELSE Return(c)
    /\ StoreRest /\ ReadOnly

\* Rewrites the row, or affects none and reports that it is not found.
PgUpdateWorkspaceWrite(c) ==
    /\ Statement(c, "UpdateWorkspace", "write")
    /\ Return(c) /\ StoreRest /\ ReadOnly

\* The transaction's first statement deletes the jobs it can see.
PgDeleteWorkspaceJobs(c) ==
    /\ Statement(c, "DeleteWorkspace", "rows")
    /\ call' = [call EXCEPT ![c].step = "commit",
                            ![c].keep = {j \in jobs : <<j[1], j[2]>> = RowKey(c)}]
    /\ StoreRest /\ ReadOnly

\* The second deletes the workspace; with none to delete it rolls back.
PgDeleteWorkspaceCommit(c) ==
    /\ Statement(c, "DeleteWorkspace", "commit")
    /\ IF RowKey(c) \in workspaces
       THEN /\ workspaces' = workspaces \ {RowKey(c)}
            /\ jobs' = jobs \ call[c].keep
            /\ raced' = raced \cup ({RowKey(c)} \cap BeingSaved)
       ELSE UNCHANGED <<workspaces, jobs, raced>>
    /\ Return(c) /\ StoreRest
    /\ UNCHANGED <<tenants, registry, snapshots, migrations, points, audit, acked, overlapped>>

\* GetWorkspaceJob: an existing job is updated, a new one needs its workspace.
PgSaveWorkspaceJobRead(c) ==
    /\ Statement(c, "SaveWorkspaceJob", "check")
    /\ Goto(c, IF JobKey(c) \in jobs THEN "write" ELSE "workspace")
    /\ StoreRest /\ ReadOnly

PgSaveWorkspaceJobWorkspace(c) ==
    /\ Statement(c, "SaveWorkspaceJob", "workspace")
    /\ IF WorkspaceOf(c) \in workspaces THEN Goto(c, "write") ELSE Return(c)
    /\ StoreRest /\ ReadOnly

\* INSERT ... ON CONFLICT DO UPDATE: waits for a transaction that has deleted
\* the row, and inserts it again when that transaction commits.
PgSaveWorkspaceJobUpsert(c) ==
    /\ Statement(c, "SaveWorkspaceJob", "write")
    /\ JobKey(c) \notin LockedJobs
    /\ jobs' = jobs \cup {JobKey(c)}
    /\ Return(c) /\ Write(c)
    /\ UNCHANGED <<snapshots, migrations, points, workspaces, audit>>

\* ListTenants and validateCredentialUniqueness, before the transaction.
PgValidateTenant(c) ==
    /\ \E op \in Handlers \cup {"CreateTenant"} : Statement(c, op, "validate")
    /\ LET cred == IF call[c].op = "CreateTenant" THEN call[c].arg ELSE call[c].keep
       IN  IF Registry!validateCredentialUniqueness(tenants, call[c].t, cred)
           THEN Goto(c, "commit") ELSE Return(c)
    /\ StoreRest /\ ReadOnly

HashesOf(t) == {h \in Hashes : registry[h] # None /\ registry[h][1] = t}

\* Mutant: the table has no primary key.
NoHashConflictChecked(t, cred) == TRUE

\* replaceTenantCredentialHashes deletes the tenant's rows and inserts the new
\* ones; the primary key refuses a digest that another tenant holds.
NoHashConflict(t, cred) ==
    \A h \in Registry!tenantCredentialHashes(cred) : registry[h] = None \/ h \in HashesOf(t)

replaceTenantCredentialHashes(t, cred) ==
    registry' = [h \in Hashes |->
        IF h \in Registry!tenantCredentialHashes(cred)
        THEN <<t, CHOOSE o \in Owners : cred[o] = h>>
        ELSE IF h \in HashesOf(t) THEN None ELSE registry[h]]

\* The transaction of CreateTenant: it fails on the primary key of tenants or
\* of credential_hashes, and waits for a transaction that deletes such a row.
PgCreateTenantCommit(c) ==
    /\ Statement(c, "CreateTenant", "commit")
    /\ LET t == call[c].t  cred == call[c].arg IN
       /\ (Registry!tenantCredentialHashes(cred) \cup HashesOf(t)) \cap LockedHashes = {}
       /\ IF ~Exists(t) /\ NoHashConflict(t, cred)
          THEN /\ tenants' = [tenants EXCEPT ![t] = cred]
               /\ replaceTenantCredentialHashes(t, cred)
          ELSE UNCHANGED <<tenants, registry>>
       /\ Acknowledge(c, t, cred)
    /\ Return(c) /\ StoreRest /\ UNCHANGED <<documents, raced>>

PgUpdateTenantCommit(c) ==
    /\ \E op \in Handlers : Statement(c, op, "commit")
    /\ LET t == call[c].t  cred == call[c].keep IN
       /\ (Registry!tenantCredentialHashes(cred) \cup HashesOf(t)) \cap LockedHashes = {}
       /\ IF Exists(t) /\ NoHashConflict(t, cred)
          THEN /\ tenants' = [tenants EXCEPT ![t] = cred]
               /\ replaceTenantCredentialHashes(t, cred)
          ELSE UNCHANGED <<tenants, registry>>
       /\ Acknowledge(c, t, WithAccount(acked[t], call[c].arg))
    /\ Return(c) /\ StoreRest /\ UNCHANGED <<documents, raced>>

\* The deletes of a tenant's rows, table by table, and of its digests; they
\* wait for rows that another delete of the tenant has locked.
PgDeleteTenantRows(c) ==
    /\ Statement(c, "DeleteTenant", "rows")
    /\ <<call[c].t>> \notin BeingDeleted
    /\ IF call[c].t = DefaultTenant
       THEN Return(c)
       ELSE call' = [call EXCEPT ![c].step = "commit", ![c].keep = RowsOf(call[c].t)]
    /\ StoreRest /\ ReadOnly

\* The delete of the tenant itself and the commit; deleting no row is no error.
PgDeleteTenantCommit(c) ==
    /\ Statement(c, "DeleteTenant", "commit")
    /\ LET t == call[c].t IN
       /\ RemoveRows(t, call[c].keep)
       /\ registry' = [h \in Hashes |-> IF h \in call[c].keep.hashes THEN None ELSE registry[h]]
       /\ tenants' = [tenants EXCEPT ![t] = None]
       /\ raced' = raced \cup ({<<t>>} \cap BeingSaved)
       /\ Acknowledge(c, t, None)
    /\ Return(c) /\ StoreRest

\* A statement that fails or times out ends its call; a transaction that did
\* not commit is rolled back.
PgStatementFails(c) ==
    /\ backend = "postgres" /\ phase = "open" /\ Busy(c)
    /\ Return(c) /\ StoreRest /\ ReadOnly

PostgresOperation(c) ==
    \/ PgEnsureTenant(c)
    \/ PgSaveDiscoveryCount(c) \/ PgSaveDiscoveryInsert(c)
    \/ PgSaveMigrationExists(c) \/ PgSaveMigrationCount(c) \/ PgSaveMigrationUpsert(c)
    \/ PgSaveRecoveryPointUpsert(c) \/ PgSaveAuditEventInsert(c)
    \/ PgCreateWorkspaceInsert(c)
    \/ PgUpdateWorkspaceRead(c) \/ PgUpdateWorkspaceWrite(c)
    \/ PgDeleteWorkspaceJobs(c) \/ PgDeleteWorkspaceCommit(c)
    \/ PgSaveWorkspaceJobRead(c) \/ PgSaveWorkspaceJobWorkspace(c)
    \/ PgSaveWorkspaceJobUpsert(c)
    \/ PgValidateTenant(c) \/ PgCreateTenantCommit(c) \/ PgUpdateTenantCommit(c)
    \/ PgDeleteTenantRows(c) \/ PgDeleteTenantCommit(c)
    \/ PgStatementFails(c)

-----------------------------------------------------------------------------
(* Opening the store.                                                       *)

Opening == /\ backend = "postgres"
           /\ UNCHANGED <<backend, documents, call, calls, crashes, history>>

\* loadCredentialMigrationTenants, and validateCredentialUniqueness of every
\* tenant against all others: duplicated legacy keys stop the start.
PgLoadTenants ==
    /\ phase = "closed"
    /\ phase' = IF \A t \in Tenants :
                      Exists(t) => Registry!validateCredentialUniqueness(tenants, t, tenants[t])
                THEN "loaded" ELSE "failed"
    /\ Opening /\ UNCHANGED <<tenants, plain, registry>>

\* seedStoredCredentialHashes: one transaction, ON CONFLICT DO NOTHING.
PgSeedHashes ==
    /\ phase = "loaded"
    /\ registry' = [h \in Hashes |->
          LET holders == {to \in Tenants \X Owners :
                             Exists(to[1]) /\ tenants[to[1]][to[2]] = h}
          IN  IF registry[h] # None \/ holders = {} THEN registry[h]
              ELSE CHOOSE to \in holders : TRUE]
    /\ phase' = "seeded"
    /\ Opening /\ UNCHANGED <<tenants, plain>>

\* Mutant: keys are erased without a look at the registry.
PgClearPlaintextUnchecked ==
    /\ phase = "loaded"
    /\ plain' = {} /\ phase' = "open"
    /\ Opening /\ UNCHANGED <<tenants, registry>>

\* clearStoredCredentialPlaintext: one transaction that checks, digest by
\* digest, that the registry holds it for this owner before the key is erased.
\* The unique index of the last migration follows (applyCredentialHashUnique-
\* IndexMigration); registry is a function, so it finds no duplicates.
PgClearPlaintext ==
    /\ phase = "seeded"
    /\ IF \A t \in Tenants : Exists(t) =>
             \A o \in Owners : tenants[t][o] # None => registry[tenants[t][o]] = <<t, o>>
       THEN plain' = {} /\ phase' = "open"
       ELSE phase' = "failed" /\ UNCHANGED plain
    /\ Opening /\ UNCHANGED <<tenants, registry>>

Empty == [t \in Tenants |-> 0]
DefaultOnly == [t \in Tenants |-> IF t = DefaultTenant THEN Registry!NoCredentials ELSE None]

\* The process dies and starts again.  The memory store starts empty
\* (NewMemoryStore), the database keeps what was committed.
Restart ==
    /\ crashes < MaxCrashes
    /\ crashes' = crashes + 1
    /\ call' = [c \in Clients |-> Idle]
    /\ IF backend = "memory"
       THEN /\ tenants' = DefaultOnly /\ acked' = DefaultOnly
            /\ snapshots' = Empty /\ audit' = Empty
            /\ migrations' = {} /\ points' = {} /\ workspaces' = {} /\ jobs' = {}
            /\ UNCHANGED <<phase, raced, overlapped>>
       ELSE /\ phase' = "closed"
            /\ UNCHANGED <<tenants, documents, history>>
    /\ UNCHANGED <<backend, plain, registry, calls>>

\* A database as earlier versions left it: keys in plaintext and no digests.
LegacyTenants ==
    {all \in [Tenants -> Registry!Credentials \cup {None}] :
        /\ all[DefaultTenant] \in {None, Registry!NoCredentials}
        /\ \A t \in Tenants \ {DefaultTenant} : all[t] # None => all[t][Root] # None}

Init ==
    /\ backend \in Backends
    /\ tenants \in IF backend = "memory" THEN {DefaultOnly} ELSE LegacyTenants
    /\ phase = IF backend = "memory" THEN "open" ELSE "closed"
    /\ plain = {to \in Tenants \X Owners :
                   backend = "postgres" /\ tenants[to[1]] # None
                      /\ tenants[to[1]][to[2]] # None}
    /\ registry = [h \in Hashes |-> None]
    /\ snapshots = Empty /\ audit = Empty
    /\ migrations = {} /\ points = {} /\ workspaces = {} /\ jobs = {}
    /\ call = [c \in Clients |-> Idle]
    /\ calls = 0 /\ crashes = 0
    /\ raced = {} /\ acked = tenants /\ overlapped = {}

Next ==
    \/ \E c \in Clients : Begin(c) \/ MemoryOperation(c) \/ PostgresOperation(c)
                            \/ CreateServiceAccount(c) \/ RotateServiceAccountKey(c)
    \/ PgLoadTenants \/ PgSeedHashes \/ PgClearPlaintext
    \/ Restart

Spec == Init /\ [][Next]_vars

-----------------------------------------------------------------------------
(* Properties.                                                              *)

\* The tables hold rows of the known kinds and a credential has one owner in the
\* registry of digests, in both stores and between any two statements.
STypeOK ==
    /\ backend \in Backends
    /\ phase \in {"closed", "loaded", "seeded", "open", "failed"}
    /\ tenants \in [Tenants -> Registry!Credentials \cup {None}]
    /\ plain \subseteq Tenants \X Owners
    /\ registry \in [Hashes -> (Tenants \X Owners) \cup {None}]
    /\ snapshots \in [Tenants -> Nat] /\ audit \in [Tenants -> Nat]
    /\ migrations \subseteq Tenants \X MigrationIDs
    /\ points \subseteq Tenants \X MigrationIDs
    /\ workspaces \subseteq Tenants \X WorkspaceIDs
    /\ jobs \subseteq Tenants \X WorkspaceIDs \X JobIDs
    /\ acked \in [Tenants -> Registry!Credentials \cup {None}]
    /\ overlapped \subseteq Tenants

\* While the PostgreSQL store is open every credential is in the registry
\* under its own owner, whatever creates, updates, deletes and restarts
\* interleave: LookupCredentialByHash finds every key, and the primary key
\* keeps two writers from giving one key to two owners.
HashesRegistered ==
    backend = "postgres" /\ phase = "open" =>
       \A t \in Tenants : Exists(t) =>
          \A o \in Owners : tenants[t][o] # None => registry[tenants[t][o]] = <<t, o>>

\* A plaintext key is erased only once its digest is registered, also when the
\* process dies between the two transactions of the credential migration.
ErasedOnlyWhenRegistered ==
    backend = "postgres" =>
       \A t \in Tenants : Exists(t) =>
          \A o \in Owners :
             tenants[t][o] # None /\ <<t, o>> \notin plain => registry[tenants[t][o]] = <<t, o>>

\* No key stops working without being revoked: each is registered under its owner
\* while the store is open, and its plaintext is erased only after that, through
\* interleaved statements and crashes of the credential migration.
CredentialsAreRegistered ==
  /\ STypeOK
  /\ HashesRegistered
  /\ ErasedOnlyWhenRegistered

RowTenants == {t \in Tenants : snapshots[t] > 0 \/ audit[t] > 0} \cup
              {r[1] : r \in migrations \cup points \cup workspaces} \cup {j[1] : j \in jobs}

\* Rows of a tenant that is gone are left only by a save that overlapped the
\* delete (PostgreSQL has no foreign keys); the memory store leaves none.
StrayRowsAreRaced ==
    \A t \in RowTenants : ~Exists(t) => backend = "postgres" /\ <<t>> \in raced

\* The same for jobs whose workspace is gone.
StrayJobsAreRaced ==
    \A j \in jobs : <<j[1], j[2]>> \notin workspaces =>
       /\ backend = "postgres"
       /\ {<<j[1]>>, <<j[1], j[2]>>} \cap raced # {}

\* The cascades of DeleteTenant and DeleteWorkspace are complete: rows without an
\* owner come only from a save that overlapped the deletion in PostgreSQL.
StraysAreRaced ==
  /\ StrayRowsAreRaced
  /\ StrayJobsAreRaced

\* Counting and inserting are separate statements in PostgreSQL: concurrent
\* saves can pass a quota by as many rows as there are other requests, and no
\* more.  The memory store never passes it.
QuotaOvershoot ==
    LET slack == IF backend = "memory" THEN 0 ELSE Cardinality(Clients) - 1 IN
    \A t \in Tenants :
       /\ MaxSnapshots > 0 => snapshots[t] <= MaxSnapshots + slack
       /\ MaxMigrations > 0 => migrationCount(t) <= MaxMigrations + slack

\* As long as no two writers of a tenant overlap, its credentials are what the
\* administrators were told: no acknowledged key is lost, no rotated key returns.
AcknowledgedKeysAreKept ==
    \A t \in Tenants \ overlapped : tenants[t] = acked[t]

\* The registry as others see it: a database with duplicated legacy keys never
\* opens and is not a registry.
Visible == IF phase = "open" \/ Unique THEN tenants ELSE [t \in Tenants |-> None]
Abstract == INSTANCE TenantRegistry WITH tenants <- Visible
\* Both stores implement the registry of tenants: their statements amount to
\* atomic creates, updates and deletes that keep every credential unique.
RegistryRefined == Abstract!RegistrySpec
=============================================================================
