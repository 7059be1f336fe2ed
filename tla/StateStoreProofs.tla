-------------------------- MODULE StateStoreProofs --------------------------
(***************************************************************************)
(* Proofs about StateStore for every set of tenants, accounts, digests and *)
(* rows, every finite set of clients and every quota: both stores keep     *)
(* credentials registered, leave no row behind without a race, stay within *)
(* the quotas' slack, keep what they acknowledged and implement            *)
(* TenantRegistry.                                                         *)
(***************************************************************************)
EXTENDS StateStore, FiniteSetTheorems, TLAPS

-----------------------------------------------------------------------------
\* Calls in progress.

\* A call in progress: its request, the step it is at and what it remembers.
CallType(x) ==
  /\ x = [op |-> x.op, t |-> x.t, arg |-> x.arg, step |-> x.step, keep |-> x.keep]
  /\ x.op # "none" /\ x.t \in Tenants
  /\ x.op \in {"SaveMigration", "SaveRecoveryPoint"} => x.arg \in MigrationIDs
  /\ x.op \in {"CreateWorkspace", "UpdateWorkspace", "DeleteWorkspace"} => x.arg \in WorkspaceIDs
  /\ x.op = "SaveWorkspaceJob" => x.arg \in WorkspaceIDs \X JobIDs
  /\ x.op = "CreateTenant" => x.arg \in Registry!InitialCredentials(x.t)
  /\ x.op \in Handlers => x.arg \in Accounts \X Hashes
  /\ x.op \in Handlers /\ x.step # "read" => x.keep \in Registry!Credentials
  /\ x.op \in Handlers /\ x.step = "commit" => Registry!validateWithinTenant(x.keep)
  /\ x.op = "DeleteTenant" /\ x.step = "commit" => x.t # DefaultTenant

\* Calls are made of an open store; only PostgreSQL has another phase.
CallsOK ==
  /\ call = [c \in Clients |-> call[c]]
  /\ \A c \in Clients : call[c] = Idle \/ CallType(call[c])
  /\ phase # "open" => \A c \in Clients : call[c] = Idle
  /\ backend = "memory" => phase = "open"

\* The two ways in which most steps of client c change its call: it ends or goes
\* to another step.
Ends(c) == Return(c)
Moves(c) ==
  /\ Busy(c) /\ call[c].op \notin Handlers /\ call[c].op # "DeleteTenant"
  /\ \E s : Goto(c, s)

\* What each of them makes of the calls.
LEMMA CallEffects ==
  ASSUME CallsOK, NEW c \in Clients
  PROVE  /\ Return(c) => /\ call' = [d \in Clients |-> call'[d]]
                         /\ call'[c] = Idle
                         /\ \A d \in Clients \ {c} : call'[d] = call[d]
         /\ \A s : Busy(c) /\ Goto(c, s) =>
              /\ call' = [d \in Clients |-> call'[d]]
              /\ call'[c] = [op |-> call[c].op, t |-> call[c].t, arg |-> call[c].arg,
                             step |-> s, keep |-> call[c].keep]
              /\ \A d \in Clients \ {c} : call'[d] = call[d]
<1>1. call = [d \in Clients |-> call[d]] /\ (Busy(c) => CallType(call[c]))
  BY DEF CallsOK, Busy, Idle
<1>2. Return(c) => /\ call' = [d \in Clients |-> call'[d]]
                   /\ call'[c] = Idle
                   /\ \A d \in Clients \ {c} : call'[d] = call[d]
  BY <1>1 DEF Return
<1>3. ASSUME NEW s, Busy(c), Goto(c, s)
      PROVE  /\ call' = [d \in Clients |-> call'[d]]
             /\ call'[c] = [op |-> call[c].op, t |-> call[c].t, arg |-> call[c].arg,
                            step |-> s, keep |-> call[c].keep]
             /\ \A d \in Clients \ {c} : call'[d] = call[d]
  <2>1. call[c] = [op |-> call[c].op, t |-> call[c].t, arg |-> call[c].arg,
                   step |-> call[c].step, keep |-> call[c].keep]
    BY <1>1, <1>3 DEF CallType
  <2> QED BY <1>1, <1>3, <2>1 DEF Goto
<1> QED BY <1>2, <1>3

\* A call in progress is a record.
LEMMA CallShape ==
  ASSUME CallsOK, NEW c \in Clients, Busy(c)
  PROVE  /\ call = [d \in Clients |-> call[d]]
         /\ call[c] = [op |-> call[c].op, t |-> call[c].t, arg |-> call[c].arg,
                       step |-> call[c].step, keep |-> call[c].keep]
<1>1. call = [d \in Clients |-> call[d]] /\ CallType(call[c])
  BY DEF CallsOK, Busy, Idle
<1> QED BY <1>1 DEF CallType

\* The actions of the memory store end their call.
LEMMA MemoryEnds ==
  ASSUME NEW c \in Clients, MemoryOperation(c)
  PROVE  /\ Return(c) /\ Busy(c) /\ phase = "open" /\ backend = "memory"
         /\ UNCHANGED <<backend, phase, plain, registry, calls, crashes, raced>>
BY DEF MemoryOperation, MemSaveDiscovery, MemSaveMigration, MemSaveRecoveryPoint,
       MemSaveAuditEvent, MemCreateWorkspace, MemUpdateWorkspace, MemDeleteWorkspace,
       MemSaveWorkspaceJob, MemCreateTenant, MemUpdateTenant, MemDeleteTenant, Memory,
       MemoryRest, Busy, Handlers

\* The statements of PostgreSQL that only read and end their call or go on.
Reads(c) ==
  \/ PgSaveDiscoveryCount(c) \/ PgSaveMigrationExists(c) \/ PgSaveMigrationCount(c)
  \/ PgUpdateWorkspaceRead(c) \/ PgUpdateWorkspaceWrite(c) \/ PgSaveWorkspaceJobRead(c)
  \/ PgSaveWorkspaceJobWorkspace(c) \/ PgStatementFails(c)

\* The statements that insert one row.
Inserts(c) ==
  \/ PgSaveDiscoveryInsert(c) \/ PgSaveMigrationUpsert(c) \/ PgSaveRecoveryPointUpsert(c)
  \/ PgSaveAuditEventInsert(c) \/ PgCreateWorkspaceInsert(c) \/ PgSaveWorkspaceJobUpsert(c)

\* The transactions that commit.
Commits(c) ==
  \/ PgCreateTenantCommit(c) \/ PgUpdateTenantCommit(c)
  \/ PgDeleteTenantCommit(c) \/ PgDeleteWorkspaceCommit(c)

\* What a statement does to its call.
LEMMA PostgresSteps ==
  ASSUME NEW c \in Clients, PostgresOperation(c)
  PROVE  /\ Busy(c) /\ phase = "open" /\ backend = "postgres"
         /\ UNCHANGED <<backend, phase, plain, calls, crashes>>
         /\ \/ PgEnsureTenant(c) /\ (Ends(c) \/ Moves(c))
            \/ Reads(c) /\ (Ends(c) \/ Moves(c)) /\ ReadOnly
            \/ Inserts(c) /\ Ends(c)
            \/ PgValidateTenant(c) /\ ReadOnly
            \/ PgDeleteTenantRows(c) /\ ReadOnly
            \/ PgDeleteWorkspaceJobs(c) /\ ReadOnly
            \/ Commits(c) /\ Ends(c)
<1>1. CASE PgEnsureTenant(c)
  BY <1>1 DEF PgEnsureTenant, Statement, At, Saves, Handlers, Busy, StoreRest, Ends, Moves
<1>2. CASE Reads(c)
  <2>1. Busy(c) /\ phase = "open" /\ backend = "postgres" /\ StoreRest /\ ReadOnly
    BY <1>2 DEF Reads, PgSaveDiscoveryCount, PgSaveMigrationExists, PgSaveMigrationCount,
         PgUpdateWorkspaceRead, PgUpdateWorkspaceWrite, PgSaveWorkspaceJobRead,
         PgSaveWorkspaceJobWorkspace, PgStatementFails, Statement, At, Busy
  <2>2. Ends(c) \/ Moves(c)
    BY <1>2 DEF Reads, PgSaveDiscoveryCount, PgSaveMigrationExists, PgSaveMigrationCount,
         PgUpdateWorkspaceRead, PgUpdateWorkspaceWrite, PgSaveWorkspaceJobRead,
         PgSaveWorkspaceJobWorkspace, PgStatementFails, Statement, At, Handlers, Busy,
         Ends, Moves
  <2> QED BY <1>2, <2>1, <2>2 DEF StoreRest
<1>3. CASE Inserts(c)
  BY <1>3 DEF Inserts, PgSaveDiscoveryInsert, PgSaveMigrationUpsert,
       PgSaveRecoveryPointUpsert, PgSaveAuditEventInsert, PgCreateWorkspaceInsert,
       PgSaveWorkspaceJobUpsert, Statement, At, Busy, Write, StoreRest, Ends
<1>4. CASE PgValidateTenant(c) \/ PgDeleteTenantRows(c) \/ PgDeleteWorkspaceJobs(c)
  BY <1>4 DEF PgValidateTenant, PgDeleteTenantRows, PgDeleteWorkspaceJobs, Statement, At,
       Busy, StoreRest, Handlers
<1>5. CASE Commits(c)
  BY <1>5 DEF Commits, PgCreateTenantCommit, PgUpdateTenantCommit, PgDeleteTenantCommit,
       PgDeleteWorkspaceCommit, Statement, At, Busy, StoreRest, Handlers, Ends
<1> QED BY <1>1, <1>2, <1>3, <1>4, <1>5 DEF PostgresOperation, Reads, Inserts, Commits

\* The credentials of a tenant to be created are credentials, none of them twice.
LEMMA InitialFacts ==
  ASSUME NEW t \in Tenants, NEW cred \in Registry!InitialCredentials(t)
  PROVE  cred \in Registry!Credentials /\ Registry!validateWithinTenant(cred)
<1>1. Root \in Owners /\ Registry!NoCredentials \in Registry!Credentials
  BY DEF Owners, Registry!Owners, Registry!NoCredentials, Registry!Credentials
<1> QED BY <1>1, StoreAssumption
        DEF Registry!InitialCredentials, Registry!NoCredentials, Registry!Credentials,
            Registry!validateWithinTenant, Registry!Owners, Owners

\* A request brings the argument of its operation.
LEMMA RequestFacts ==
  ASSUME NEW r \in Requests
  PROVE  /\ r.op # "none" /\ r.t \in Tenants
         /\ r.op \in {"SaveMigration", "SaveRecoveryPoint"} => r.arg \in MigrationIDs
         /\ r.op \in {"CreateWorkspace", "UpdateWorkspace", "DeleteWorkspace"}
              => r.arg \in WorkspaceIDs
         /\ r.op = "SaveWorkspaceJob" => r.arg \in WorkspaceIDs \X JobIDs
         /\ r.op = "CreateTenant" => r.arg \in Registry!InitialCredentials(r.t)
         /\ r.op \in Handlers => r.arg \in Accounts \X Hashes
<1>1. ASSUME NEW t \in Tenants,
             r \in [op : {"CreateTenant"}, t : {t}, arg : Registry!InitialCredentials(t)]
      PROVE  /\ r.op = "CreateTenant" /\ r.t \in Tenants
             /\ r.arg \in Registry!InitialCredentials(r.t)
  <2>1. r.op = "CreateTenant" /\ r.t = t /\ r.arg \in Registry!InitialCredentials(t)
    BY <1>1
  <2> QED BY <2>1
<1>2. CASE r \in UNION {[op : {"CreateTenant"}, t : {t}, arg : Registry!InitialCredentials(t)] :
                        t \in Tenants}
  BY <1>1, <1>2 DEF Handlers
<1>3. CASE r \in [op : {"SaveDiscovery", "SaveAuditEvent", "DeleteTenant"},
                 t : Tenants, arg : {None}]
  BY <1>3 DEF Handlers
<1>4. CASE r \in [op : {"SaveMigration", "SaveRecoveryPoint"}, t : Tenants, arg : MigrationIDs]
  BY <1>4 DEF Handlers
<1>5. CASE r \in [op : {"CreateWorkspace", "UpdateWorkspace", "DeleteWorkspace"},
                 t : Tenants, arg : WorkspaceIDs]
  BY <1>5 DEF Handlers
<1>6. CASE r \in [op : {"SaveWorkspaceJob"}, t : Tenants, arg : WorkspaceIDs \X JobIDs]
  BY <1>6 DEF Handlers
<1>7. CASE r \in [op : Handlers, t : Tenants, arg : Accounts \X Hashes]
  BY <1>7 DEF Handlers
<1>8. \/ r \in [op : {"SaveDiscovery", "SaveAuditEvent", "DeleteTenant"},
               t : Tenants, arg : {None}]
      \/ r \in [op : {"SaveMigration", "SaveRecoveryPoint"}, t : Tenants, arg : MigrationIDs]
      \/ r \in [op : {"CreateWorkspace", "UpdateWorkspace", "DeleteWorkspace"},
               t : Tenants, arg : WorkspaceIDs]
      \/ r \in [op : {"SaveWorkspaceJob"}, t : Tenants, arg : WorkspaceIDs \X JobIDs]
      \/ r \in UNION {[op : {"CreateTenant"}, t : {t}, arg : Registry!InitialCredentials(t)] :
                      t \in Tenants}
      \/ r \in [op : Handlers, t : Tenants, arg : Accounts \X Hashes]
  BY DEF Requests
<1> QED BY <1>2, <1>3, <1>4, <1>5, <1>6, <1>7, <1>8, Zenon

\* A step that changes the call of one client to a well-formed one.
LEMMA CallsFrom ==
  ASSUME CallsOK, NEW c \in Clients, phase = "open", UNCHANGED <<backend, phase>>,
         call' = [d \in Clients |-> call'[d]],
         \A d \in Clients \ {c} : call'[d] = call[d],
         call'[c] = Idle \/ CallType(call'[c])
  PROVE  CallsOK'
<1>1. \A d \in Clients : call'[d] = Idle \/ CallType(call'[d])
  BY DEF CallsOK
<1> QED BY <1>1 DEF CallsOK, CallType, Idle

\* Every step keeps the calls well formed.
LEMMA CallsStep ==
  ASSUME STypeOK, CallsOK, [Next]_vars
  PROVE  CallsOK'
<1> SUFFICES ASSUME Next PROVE CallsOK'
  BY DEF vars, CallsOK, CallType, Idle
<1>1. ASSUME NEW c \in Clients, Begin(c)
      PROVE  CallsOK'
  <2>1. PICK r \in Requests :
          call' = [call EXCEPT ![c] = [op |-> r.op, t |-> r.t, arg |-> r.arg,
                                       step |-> FirstStep(r.op), keep |-> None]]
    BY <1>1 DEF Begin
  <2>2. CallType([op |-> r.op, t |-> r.t, arg |-> r.arg,
                  step |-> FirstStep(r.op), keep |-> None])
    <3>2. /\ r.op \in Handlers => FirstStep(r.op) = "read"
          /\ r.op = "DeleteTenant" => FirstStep(r.op) = "rows"
      BY DEF FirstStep, Handlers, Saves
    <3> QED BY <3>2, RequestFacts DEF CallType
  <2>3. phase' = phase /\ backend' = backend /\ phase = "open"
    BY <1>1 DEF Begin
  <2> QED BY <2>1, <2>2, <2>3 DEF CallsOK, CallType
<1>2. ASSUME NEW c \in Clients, Ends(c) \/ Moves(c), UNCHANGED <<backend, phase>>,
             phase = "open"
      PROVE  CallsOK'
  <2>1. CASE Ends(c)
    BY <1>2, <2>1, CallEffects, CallsFrom DEF Ends
  <2>2. CASE Moves(c)
    <3>1. CallType(call[c])
      BY <2>2 DEF Moves, CallsOK, Busy, Idle
    <3>2. PICK s : Goto(c, s)
      BY <2>2 DEF Moves
    <3>3. /\ call'[c] = [op |-> call[c].op, t |-> call[c].t, arg |-> call[c].arg,
                         step |-> s, keep |-> call[c].keep]
          /\ call' = [d \in Clients |-> call'[d]]
          /\ \A d \in Clients \ {c} : call'[d] = call[d]
      BY <2>2, <3>2, CallEffects DEF Moves
    <3>4. CallType(call'[c])
      BY <2>2, <3>1, <3>3 DEF CallType, Moves
    <3> QED BY <1>2, <3>3, <3>4, CallsFrom
  <2> QED BY <1>2, <2>1, <2>2
<1>3. ASSUME NEW c \in Clients, CreateServiceAccount(c) \/ RotateServiceAccountKey(c)
      PROVE  CallsOK'
  <2>1. /\ phase = "open" /\ UNCHANGED <<backend, phase>>
        /\ Busy(c) /\ call[c].op \in Handlers
        /\ \/ Return(c)
           \/ /\ Exists(call[c].t)
              /\ call' = [call EXCEPT ![c].step = "validate",
                                      ![c].keep = WithAccount(tenants[call[c].t], call[c].arg)]
    BY <1>3 DEF CreateServiceAccount, RotateServiceAccountKey, ReadTenant, At, Busy, Handlers
  <2>2. CASE Return(c)
    BY <2>1, <2>2, <1>2 DEF Ends
  <2>3. CASE Exists(call[c].t) /\ call' = [call EXCEPT ![c].step = "validate",
               ![c].keep = WithAccount(tenants[call[c].t], call[c].arg)]
    <3>1. CallType(call[c])
      BY <2>1 DEF CallsOK, Busy, Idle
    <3>2. tenants[call[c].t] \in Registry!Credentials /\ call[c].arg \in Accounts \X Hashes
      BY <2>1, <2>3, <3>1 DEF CallType, STypeOK, Exists
    <3>3. WithAccount(tenants[call[c].t], call[c].arg) \in Registry!Credentials
      BY <3>2 DEF WithAccount, Registry!Credentials, Registry!Owners
    <3>0. /\ call = [d \in Clients |-> call[d]]
          /\ call[c] = [op |-> call[c].op, t |-> call[c].t, arg |-> call[c].arg,
                        step |-> call[c].step, keep |-> call[c].keep]
      BY <2>1, CallShape
    <3>4. /\ call'[c] = [op |-> call[c].op, t |-> call[c].t, arg |-> call[c].arg, step |-> "validate",
                         keep |-> WithAccount(tenants[call[c].t], call[c].arg)]
          /\ call' = [d \in Clients |-> call'[d]]
          /\ \A d \in Clients \ {c} : call'[d] = call[d]
      BY <2>3, <3>0
    <3>5. CallType(call'[c])
      BY <2>1, <3>1, <3>3, <3>4 DEF CallType, Handlers
    <3> QED BY <2>1, <3>4, <3>5, CallsFrom
  <2> QED BY <2>1, <2>2, <2>3
<1>4. ASSUME NEW c \in Clients, PgValidateTenant(c)
      PROVE  CallsOK'
  <2>1. /\ phase = "open" /\ UNCHANGED <<backend, phase>>
        /\ Busy(c) /\ call[c].op \in Handlers \cup {"CreateTenant"} /\ call[c].step # "read"
        /\ \/ Return(c)
           \/ /\ Goto(c, "commit")
              /\ call[c].op \in Handlers => Registry!validateWithinTenant(call[c].keep)
    BY <1>4 DEF PgValidateTenant, Statement, At, Busy, Handlers, StoreRest,
                Registry!validateCredentialUniqueness
  <2>2. CASE Return(c)
    BY <2>1, <2>2, <1>2 DEF Ends
  <2>3. CASE Goto(c, "commit")
    <3>1. CallType(call[c])
      BY <2>1 DEF CallsOK, Busy, Idle
    <3>2. call'[c] = [op |-> call[c].op, t |-> call[c].t, arg |-> call[c].arg,
                      step |-> "commit", keep |-> call[c].keep]
      BY <2>1, <2>3, CallEffects
    <3>3. call[c].op \in Handlers => Registry!validateWithinTenant(call[c].keep)
      BY <2>1, <2>3, <3>2, CallEffects DEF Idle
    <3>4. CallType(call'[c])
      BY <2>1, <3>1, <3>2, <3>3 DEF CallType, Handlers
    <3> QED BY <2>1, <2>3, <3>4, CallEffects, CallsFrom
  <2> QED BY <2>1, <2>2, <2>3
<1>5. ASSUME NEW c \in Clients, PgDeleteTenantRows(c) \/ PgDeleteWorkspaceJobs(c)
      PROVE  CallsOK'
  <2>1. /\ phase = "open" /\ UNCHANGED <<backend, phase>>
        /\ Busy(c) /\ call[c].op \in {"DeleteTenant", "DeleteWorkspace"}
    BY <1>5 DEF PgDeleteTenantRows, PgDeleteWorkspaceJobs, Statement, At, Busy, StoreRest
  <2>2. CASE Return(c)
    BY <2>1, <2>2, <1>2 DEF Ends
  <2>3. ASSUME NEW k, call' = [call EXCEPT ![c].step = "commit", ![c].keep = k],
               call[c].op = "DeleteTenant" => call[c].t # DefaultTenant
        PROVE  CallsOK'
    <3>1. CallType(call[c])
      BY <2>1 DEF CallsOK, Busy, Idle
    <3>0. /\ call = [d \in Clients |-> call[d]]
          /\ call[c] = [op |-> call[c].op, t |-> call[c].t, arg |-> call[c].arg,
                        step |-> call[c].step, keep |-> call[c].keep]
      BY <2>1, CallShape
    <3>2. /\ call'[c] = [op |-> call[c].op, t |-> call[c].t, arg |-> call[c].arg,
                         step |-> "commit", keep |-> k]
          /\ call' = [d \in Clients |-> call'[d]]
          /\ \A d \in Clients \ {c} : call'[d] = call[d]
      BY <2>3, <3>0
    <3>3. call[c].op = "DeleteTenant" => call[c].t # DefaultTenant
      BY <2>3
    <3>4. CallType(call'[c])
      BY <2>1, <3>1, <3>2, <3>3 DEF CallType, Handlers
    <3> QED BY <2>1, <3>2, <3>4, CallsFrom
  <2>4. \/ Return(c)
        \/ /\ \E k : call' = [call EXCEPT ![c].step = "commit", ![c].keep = k]
           /\ call[c].op = "DeleteTenant" => call[c].t # DefaultTenant
    BY <1>5 DEF PgDeleteTenantRows, PgDeleteWorkspaceJobs, Statement, At
  <2> QED BY <2>2, <2>3, <2>4
<1>6. CASE PgLoadTenants \/ PgSeedHashes \/ PgClearPlaintext
  BY <1>6 DEF PgLoadTenants, PgSeedHashes, PgClearPlaintext, Opening, CallsOK, CallType, Idle
<1>7. CASE Restart
  BY <1>7 DEF Restart, CallsOK, CallType, Idle
<1>8. ASSUME NEW c \in Clients, MemoryOperation(c)
      PROVE  CallsOK'
  BY <1>2, <1>8, MemoryEnds DEF Ends
<1>9. ASSUME NEW c \in Clients, PostgresOperation(c)
      PROVE  CallsOK'
  BY <1>2, <1>4, <1>5, <1>9, PostgresSteps
<1> QED BY <1>1, <1>3, <1>6, <1>7, <1>8, <1>9 DEF Next

-----------------------------------------------------------------------------
\* The tables, the deletions in progress and the registry of digests.

\* c is a DeleteTenant call of tenant t whose statements have run and whose
\* transaction has not committed.
Deleting(c, t) == call[c].op = "DeleteTenant" /\ call[c].step = "commit" /\ call[c].t = t

\* At most one transaction deletes a tenant, because the rows are locked, and
\* what it deleted is there until it commits.
DeletesOK ==
  \A c \in Clients, t \in Tenants : Deleting(c, t) =>
    /\ backend = "postgres"
    /\ \A d \in Clients : Deleting(d, t) => d = c
    /\ call[c].keep.snapshots \in 0..snapshots[t]
    /\ call[c].keep.audit \in 0..audit[t]
    /\ \A h \in call[c].keep.hashes : h \in HashesOf(t)

\* A tenant's last acknowledged credentials are there when the tenant is.
AckedOK == \A t \in Tenants : acked[t] = None <=> tenants[t] = None

\* A key that is not in plaintext any more is registered, and an open database
\* has no plaintext keys.
RegisteredOK ==
  /\ backend = "postgres" /\ phase = "open" => plain = {}
  /\ ErasedOnlyWhenRegistered

StoreInv == STypeOK /\ CallsOK /\ DeletesOK /\ AckedOK /\ RegisteredOK

\* No credentials are different from credentials of no owner.
LEMMA NoneFacts ==
  /\ None \notin Registry!Credentials /\ Registry!NoCredentials \in Registry!Credentials
  /\ None \notin Tenants \X Owners /\ None \notin Hashes /\ DefaultTenant \in Tenants
BY StoreAssumption DEF Registry!Credentials, Registry!NoCredentials, Owners, Registry!Owners

\* A write of one tenant and what its caller is told.
LEMMA AckStep ==
  ASSUME STypeOK, AckedOK, NEW c \in Clients, NEW t \in Tenants,
         NEW x \in Registry!Credentials \cup {None}, NEW y,
         tenants' = [tenants EXCEPT ![t] = x] \/ tenants' = tenants,
         tenants' # tenants => y \in Registry!Credentials \cup {None} /\ (y = None <=> x = None),
         Acknowledge(c, t, y)
  PROVE  /\ tenants' \in [Tenants -> Registry!Credentials \cup {None}]
         /\ acked' \in [Tenants -> Registry!Credentials \cup {None}]
         /\ overlapped' \subseteq Tenants
         /\ AckedOK'
<1>1. CASE tenants' = tenants
  BY <1>1 DEF STypeOK, AckedOK, Acknowledge
<1>2. CASE tenants' # tenants
  <2>1. /\ tenants' = [tenants EXCEPT ![t] = x] /\ acked' = [acked EXCEPT ![t] = y]
        /\ overlapped' \in {overlapped, overlapped \cup {t}}
    BY <1>2 DEF Acknowledge
  <2>2. y \in Registry!Credentials \cup {None} /\ (y = None <=> x = None)
    BY <1>2
  <2> QED BY <2>1, <2>2 DEF STypeOK, AckedOK
<1> QED BY <1>1, <1>2

\* What a handler writes for its account, and what it reports.
LEMMA WithAccountType ==
  ASSUME NEW cred \in Registry!Credentials, NEW arg \in Accounts \X Hashes
  PROVE  WithAccount(cred, arg) \in Registry!Credentials
BY DEF WithAccount, Registry!Credentials, Registry!Owners

\* Creating, updating and deleting a tenant, in both stores.
LEMMA TenantWrites ==
  ASSUME STypeOK, CallsOK, AckedOK, NEW c \in Clients,
         \/ MemCreateTenant(c) \/ MemUpdateTenant(c) \/ MemDeleteTenant(c)
         \/ PgCreateTenantCommit(c) \/ PgUpdateTenantCommit(c) \/ PgDeleteTenantCommit(c)
  PROVE  /\ tenants' \in [Tenants -> Registry!Credentials \cup {None}]
         /\ acked' \in [Tenants -> Registry!Credentials \cup {None}]
         /\ overlapped' \subseteq Tenants
         /\ AckedOK'
<1>1. CallType(call[c])
  BY DEF CallsOK, Idle, MemCreateTenant, MemUpdateTenant, MemDeleteTenant, Memory,
         PgCreateTenantCommit, PgUpdateTenantCommit, PgDeleteTenantCommit, Statement, At,
         Handlers
<1> DEFINE t == call[c].t
<1>2. t \in Tenants
  BY <1>1 DEF CallType
<1>3. CASE MemCreateTenant(c) \/ PgCreateTenantCommit(c)
  <2>1. /\ call[c].op = "CreateTenant"
        /\ tenants' = [tenants EXCEPT ![t] = call[c].arg] \/ tenants' = tenants
        /\ Acknowledge(c, t, call[c].arg)
    BY <1>3 DEF MemCreateTenant, PgCreateTenantCommit, Created, Memory, Statement, At
  <2>2. call[c].arg \in Registry!Credentials
    BY <1>1, <1>2, <2>1, InitialFacts DEF CallType
  <2> QED BY <1>2, <2>1, <2>2, AckStep, NoneFacts
<1>4. CASE MemUpdateTenant(c) \/ PgUpdateTenantCommit(c)
  <2>1. /\ call[c].op \in Handlers /\ call[c].step # "read"
        /\ \/ tenants' = [tenants EXCEPT ![t] = call[c].keep] /\ Exists(t)
           \/ tenants' = tenants
        /\ Acknowledge(c, t, WithAccount(acked[t], call[c].arg))
    BY <1>4 DEF MemUpdateTenant, PgUpdateTenantCommit, Updated, Statement, At
  <2>2. call[c].keep \in Registry!Credentials /\ call[c].arg \in Accounts \X Hashes
    BY <1>1, <2>1 DEF CallType
  <2>3. tenants' # tenants => acked[t] \in Registry!Credentials
    BY <1>2, <2>1 DEF STypeOK, AckedOK, Exists
  <2>4. tenants' # tenants => WithAccount(acked[t], call[c].arg) \in Registry!Credentials
    BY <2>2, <2>3, WithAccountType
  <2>5. tenants' = [tenants EXCEPT ![t] = call[c].keep] \/ tenants' = tenants
    BY <2>1
  <2> HIDE DEF t
  <2> QED BY <1>2, <2>1, <2>2, <2>4, <2>5, AckStep, NoneFacts
<1>5. CASE MemDeleteTenant(c) \/ PgDeleteTenantCommit(c)
  <2>1. /\ tenants' = [tenants EXCEPT ![t] = None] \/ tenants' = tenants
        /\ Acknowledge(c, t, None)
    BY <1>5 DEF MemDeleteTenant, PgDeleteTenantCommit
  <2> QED BY <1>2, <2>1, AckStep
<1> QED BY <1>3, <1>4, <1>5

\* A call that ends or goes on deletes nothing.
LEMMA DeletingKept ==
  ASSUME CallsOK, NEW c \in Clients, Ends(c) \/ Moves(c),
         NEW d \in Clients, NEW t, Deleting(d, t)'
  PROVE  Deleting(d, t) /\ d # c /\ call'[d] = call[d]
<1>1. CASE Ends(c)
  BY <1>1, CallEffects DEF Ends, Deleting, Idle
<1>2. CASE Moves(c)
  <2>1. PICK s : Goto(c, s)
    BY <1>2 DEF Moves
  <2>2. Busy(c) /\ call[c].op # "DeleteTenant"
    BY <1>2 DEF Moves
  <2>3. /\ call'[c] = [op |-> call[c].op, t |-> call[c].t, arg |-> call[c].arg,
                       step |-> s, keep |-> call[c].keep]
        /\ \A e \in Clients \ {c} : call'[e] = call[e]
    BY <2>1, <2>2, CallEffects
  <2> QED BY <2>2, <2>3 DEF Deleting
<1> QED BY <1>1, <1>2

\* Every step keeps the types of the tables.
LEMMA TypeStep ==
  ASSUME StoreInv, [Next]_vars
  PROVE  STypeOK' /\ AckedOK'
<1>0. STypeOK /\ CallsOK /\ AckedOK
  BY DEF StoreInv
<1>1. CASE UNCHANGED vars
  BY <1>0, <1>1 DEF vars, documents, history, STypeOK, AckedOK
<1>2. ASSUME NEW c \in Clients, Begin(c) \/ CreateServiceAccount(c) \/ RotateServiceAccountKey(c)
      PROVE  STypeOK' /\ AckedOK'
  BY <1>0, <1>2 DEF Begin, CreateServiceAccount, RotateServiceAccountKey, ReadTenant,
       documents, history, STypeOK, AckedOK
<1>3. ASSUME NEW c \in Clients, MemoryOperation(c)
      PROVE  STypeOK' /\ AckedOK'
  <2>1. CallType(call[c]) /\ UNCHANGED <<backend, phase, plain, registry>>
    BY <1>0, <1>3, MemoryEnds DEF CallsOK, Idle, Busy
  <2>2. CASE \/ MemSaveDiscovery(c) \/ MemSaveMigration(c) \/ MemSaveRecoveryPoint(c)
             \/ MemSaveAuditEvent(c) \/ MemCreateWorkspace(c) \/ MemUpdateWorkspace(c)
             \/ MemDeleteWorkspace(c) \/ MemSaveWorkspaceJob(c)
    <3>1. call[c].t \in Tenants /\ UNCHANGED <<tenants, acked, overlapped>>
      BY <2>1, <2>2 DEF CallType, MemSaveDiscovery, MemSaveMigration, MemSaveRecoveryPoint,
           MemSaveAuditEvent, MemCreateWorkspace, MemUpdateWorkspace, MemDeleteWorkspace,
           MemSaveWorkspaceJob, NoHistory
    <3>2. snapshots' \in [Tenants -> Nat] /\ audit' \in [Tenants -> Nat]
      BY <1>0, <2>2, <3>1 DEF STypeOK, MemSaveDiscovery, MemSaveMigration, MemSaveRecoveryPoint,
           MemSaveAuditEvent, MemCreateWorkspace, MemUpdateWorkspace, MemDeleteWorkspace,
           MemSaveWorkspaceJob, InsertSnapshot, documents
    <3>3. migrations' \subseteq Tenants \X MigrationIDs /\ points' \subseteq Tenants \X MigrationIDs
      BY <1>0, <2>1, <2>2, <3>1 DEF STypeOK, CallType, MemSaveDiscovery, MemSaveMigration,
           MemSaveRecoveryPoint, MemSaveAuditEvent, MemCreateWorkspace, MemUpdateWorkspace,
           MemDeleteWorkspace, MemSaveWorkspaceJob, documents, RowKey, Memory
    <3>4. workspaces' \subseteq Tenants \X WorkspaceIDs
      BY <1>0, <2>1, <2>2, <3>1 DEF STypeOK, CallType, MemSaveDiscovery, MemSaveMigration,
           MemSaveRecoveryPoint, MemSaveAuditEvent, MemCreateWorkspace, MemUpdateWorkspace,
           MemDeleteWorkspace, MemSaveWorkspaceJob, documents, RowKey, Memory
    <3>5. jobs' \subseteq Tenants \X WorkspaceIDs \X JobIDs
      BY <1>0, <2>1, <2>2, <3>1 DEF STypeOK, CallType, MemSaveDiscovery, MemSaveMigration,
           MemSaveRecoveryPoint, MemSaveAuditEvent, MemCreateWorkspace, MemUpdateWorkspace,
           MemDeleteWorkspace, MemSaveWorkspaceJob, documents, JobKey, Memory
    <3> QED BY <1>0, <2>1, <3>1, <3>2, <3>3, <3>4, <3>5 DEF STypeOK, AckedOK
  <2>3. CASE MemCreateTenant(c) \/ MemUpdateTenant(c)
    <3>1. UNCHANGED documents
      BY <2>3 DEF MemCreateTenant, MemUpdateTenant
    <3> QED BY <1>0, <2>1, <2>3, <3>1, TenantWrites DEF STypeOK, documents
  <2>4. CASE MemDeleteTenant(c)
    <3>1. \/ UNCHANGED documents
          \/ RemoveRows(call[c].t, RowsOf(call[c].t))
      BY <2>4 DEF MemDeleteTenant
    <3>2. call[c].t \in Tenants
      BY <2>1 DEF CallType
    <3>3. /\ snapshots' \in [Tenants -> Nat] /\ audit' \in [Tenants -> Nat]
          /\ migrations' \subseteq migrations /\ points' \subseteq points
          /\ workspaces' \subseteq workspaces /\ jobs' \subseteq jobs
      BY <1>0, <3>1, <3>2 DEF STypeOK, documents, RemoveRows, RowsOf
    <3> QED BY <1>0, <2>1, <2>4, <3>3, TenantWrites DEF STypeOK
  <2> QED BY <1>3, <2>2, <2>3, <2>4 DEF MemoryOperation
<1>4. ASSUME NEW c \in Clients, PostgresOperation(c)
      PROVE  STypeOK' /\ AckedOK'
  <2>1. CallType(call[c]) /\ UNCHANGED <<backend, phase, plain>>
    BY <1>0, <1>4, PostgresSteps DEF CallsOK, Idle, Busy
  <2>2. CASE ReadOnly
    BY <1>0, <2>1, <2>2 DEF ReadOnly, documents, history, STypeOK, AckedOK
  <2>3. CASE PgEnsureTenant(c)
    <3>1. /\ UNCHANGED <<registry, documents, raced, overlapped>>
          /\ \/ tenants' = tenants /\ acked' = acked
             \/ /\ tenants' = [tenants EXCEPT ![DefaultTenant] = Registry!NoCredentials]
                /\ acked' = [acked EXCEPT ![DefaultTenant] = Registry!NoCredentials]
      BY <2>3 DEF PgEnsureTenant
    <3> QED BY <1>0, <2>1, <3>1, NoneFacts DEF STypeOK, AckedOK, documents
  <2>4. CASE Inserts(c)
    <3>1. call[c].t \in Tenants /\ UNCHANGED <<tenants, registry, acked, overlapped>>
      BY <2>1, <2>4 DEF CallType, Inserts, PgSaveDiscoveryInsert, PgSaveMigrationUpsert,
           PgSaveRecoveryPointUpsert, PgSaveAuditEventInsert, PgCreateWorkspaceInsert,
           PgSaveWorkspaceJobUpsert, Write
    <3>2. snapshots' \in [Tenants -> Nat] /\ audit' \in [Tenants -> Nat]
      BY <1>0, <2>4, <3>1 DEF STypeOK, Inserts, PgSaveDiscoveryInsert, PgSaveMigrationUpsert,
           PgSaveRecoveryPointUpsert, PgSaveAuditEventInsert, PgCreateWorkspaceInsert,
           PgSaveWorkspaceJobUpsert, InsertSnapshot
    <3>3. migrations' \subseteq Tenants \X MigrationIDs /\ points' \subseteq Tenants \X MigrationIDs
      BY <1>0, <2>1, <2>4, <3>1 DEF STypeOK, CallType, Inserts, PgSaveDiscoveryInsert,
           PgSaveMigrationUpsert, PgSaveRecoveryPointUpsert, PgSaveAuditEventInsert,
           PgCreateWorkspaceInsert, PgSaveWorkspaceJobUpsert, RowKey, Statement, At
    <3>4. workspaces' \subseteq Tenants \X WorkspaceIDs
      BY <1>0, <2>1, <2>4, <3>1 DEF STypeOK, CallType, Inserts, PgSaveDiscoveryInsert,
           PgSaveMigrationUpsert, PgSaveRecoveryPointUpsert, PgSaveAuditEventInsert,
           PgCreateWorkspaceInsert, PgSaveWorkspaceJobUpsert, RowKey, Statement, At
    <3>5. jobs' \subseteq Tenants \X WorkspaceIDs \X JobIDs
      BY <1>0, <2>1, <2>4, <3>1 DEF STypeOK, CallType, Inserts, PgSaveDiscoveryInsert,
           PgSaveMigrationUpsert, PgSaveRecoveryPointUpsert, PgSaveAuditEventInsert,
           PgCreateWorkspaceInsert, PgSaveWorkspaceJobUpsert, JobKey, Statement, At
    <3> QED BY <1>0, <2>1, <3>1, <3>2, <3>3, <3>4, <3>5 DEF STypeOK, AckedOK
  <2>5. CASE PgCreateTenantCommit(c) \/ PgUpdateTenantCommit(c)
    <3>1. UNCHANGED documents
      BY <2>5 DEF PgCreateTenantCommit, PgUpdateTenantCommit
    <3>2. registry' \in [Hashes -> (Tenants \X Owners) \cup {None}]
      <4>1. registry' = registry
            \/ \E cred : replaceTenantCredentialHashes(call[c].t, cred)
        BY <2>5 DEF PgCreateTenantCommit, PgUpdateTenantCommit
      <4>2. ASSUME NEW cred, replaceTenantCredentialHashes(call[c].t, cred)
            PROVE  registry' \in [Hashes -> (Tenants \X Owners) \cup {None}]
        <5>1. \A h \in Registry!tenantCredentialHashes(cred) :
                (CHOOSE o \in Owners : cred[o] = h) \in Owners
          BY DEF Registry!tenantCredentialHashes, Owners
        <5>2. call[c].t \in Tenants
          BY <2>1 DEF CallType
        <5> QED BY <1>0, <4>2, <5>1, <5>2 DEF replaceTenantCredentialHashes, STypeOK
      <4> QED BY <1>0, <4>1, <4>2 DEF STypeOK
    <3> QED BY <1>0, <2>1, <2>5, <3>1, <3>2, TenantWrites DEF STypeOK, documents
  <2>6. CASE PgDeleteTenantCommit(c)
    <3>1. /\ RemoveRows(call[c].t, call[c].keep)
          /\ registry' = [h \in Hashes |-> IF h \in call[c].keep.hashes THEN None ELSE registry[h]]
          /\ call[c].op = "DeleteTenant" /\ call[c].step = "commit"
      BY <2>6 DEF PgDeleteTenantCommit, Statement, At
    <3>2. /\ call[c].t \in Tenants
          /\ call[c].keep.snapshots \in 0..snapshots[call[c].t]
          /\ call[c].keep.audit \in 0..audit[call[c].t]
      BY <2>1, <3>1 DEF CallType, StoreInv, DeletesOK, Deleting
    <3>3. /\ snapshots' \in [Tenants -> Nat] /\ audit' \in [Tenants -> Nat]
          /\ migrations' \subseteq migrations /\ points' \subseteq points
          /\ workspaces' \subseteq workspaces /\ jobs' \subseteq jobs
      BY <1>0, <3>1, <3>2 DEF STypeOK, RemoveRows
    <3>4. registry' \in [Hashes -> (Tenants \X Owners) \cup {None}]
      BY <1>0, <3>1 DEF STypeOK
    <3> QED BY <1>0, <2>1, <2>6, <3>3, <3>4, TenantWrites DEF STypeOK
  <2>7. CASE PgDeleteWorkspaceCommit(c)
    BY <1>0, <2>1, <2>7 DEF PgDeleteWorkspaceCommit, STypeOK, AckedOK
  <2> QED BY <1>4, <2>2, <2>3, <2>4, <2>5, <2>6, <2>7, PostgresSteps DEF Commits
<1>5. CASE PgLoadTenants \/ PgClearPlaintext
  BY <1>0, <1>5 DEF PgLoadTenants, PgClearPlaintext, Opening, documents, history, STypeOK, AckedOK
<1>6. CASE PgSeedHashes
  <2>1. registry' \in [Hashes -> (Tenants \X Owners) \cup {None}]
    BY <1>0, <1>6 DEF PgSeedHashes, STypeOK
  <2>2. phase' = "seeded" /\ UNCHANGED <<backend, documents, acked, overlapped, tenants, plain>>
    BY <1>6 DEF PgSeedHashes, Opening, history
  <2> QED BY <1>0, <2>1, <2>2 DEF documents, STypeOK, AckedOK
<1>7. CASE Restart
  BY <1>0, <1>7, NoneFacts DEF Restart, documents, history, STypeOK, AckedOK, DefaultOnly, Empty
<1> QED BY <1>1, <1>2, <1>3, <1>4, <1>5, <1>6, <1>7 DEF Next

\* Every step keeps what the deletions in progress rely on.
LEMMA DeletesStep ==
  ASSUME StoreInv, [Next]_vars
  PROVE  DeletesOK'
<1>0. STypeOK /\ CallsOK /\ DeletesOK
  BY DEF StoreInv
<1>1. CASE UNCHANGED vars
  BY <1>0, <1>1 DEF vars, documents, DeletesOK, Deleting, HashesOf
<1>2. ASSUME \A d \in Clients, t \in Tenants : Deleting(d, t)' => Deleting(d, t) /\ call'[d] = call[d],
             \A d \in Clients, t \in Tenants : Deleting(d, t)' =>
                /\ snapshots'[t] \in Nat /\ snapshots'[t] >= snapshots[t]
                /\ audit'[t] \in Nat /\ audit'[t] >= audit[t]
                /\ \A h \in call[d].keep.hashes : registry'[h] = registry[h],
             backend' = backend
      PROVE  DeletesOK'
  <2> SUFFICES ASSUME NEW d \in Clients, NEW t \in Tenants, Deleting(d, t)'
               PROVE  /\ backend' = "postgres"
                      /\ \A e \in Clients : Deleting(e, t)' => e = d
                      /\ call'[d].keep.snapshots \in 0..snapshots'[t]
                      /\ call'[d].keep.audit \in 0..audit'[t]
                      /\ \A h \in call'[d].keep.hashes : h \in HashesOf(t)'
    BY DEF DeletesOK
  <2>1. Deleting(d, t) /\ call'[d] = call[d]
    BY <1>2
  <2>2. /\ backend = "postgres"
        /\ \A e \in Clients : Deleting(e, t) => e = d
        /\ call[d].keep.snapshots \in 0..snapshots[t]
        /\ call[d].keep.audit \in 0..audit[t]
        /\ \A h \in call[d].keep.hashes : h \in HashesOf(t)
    BY <1>0, <2>1 DEF DeletesOK
  <2>3. \A e \in Clients : Deleting(e, t)' => Deleting(e, t)
    BY <1>2
  <2>4. /\ snapshots'[t] \in Nat /\ snapshots'[t] >= snapshots[t]
        /\ audit'[t] \in Nat /\ audit'[t] >= audit[t]
        /\ \A h \in call[d].keep.hashes : registry'[h] = registry[h]
    BY <1>2
  <2>5. snapshots[t] \in Nat /\ audit[t] \in Nat
    BY <1>0 DEF STypeOK
  <2>6. \A h \in call'[d].keep.hashes : h \in HashesOf(t)'
    BY <2>1, <2>2, <2>4 DEF HashesOf
  <2> QED BY <1>2, <2>1, <2>2, <2>3, <2>4, <2>5, <2>6
<1>3. ASSUME NEW c \in Clients, Begin(c)
      PROVE  DeletesOK'
  <2>1. \A d \in Clients \ {c} : call'[d] = call[d]
    BY <1>0, <1>3 DEF Begin, CallsOK
  <2>2. ~(call'[c].op = "DeleteTenant" /\ call'[c].step = "commit")
    <3>1. PICK r \in Requests :
            call' = [call EXCEPT ![c] = [op |-> r.op, t |-> r.t, arg |-> r.arg,
                                         step |-> FirstStep(r.op), keep |-> None]]
      BY <1>3 DEF Begin
    <3>2. call'[c].op = r.op /\ call'[c].step = FirstStep(r.op)
      BY <1>0, <3>1 DEF CallsOK
    <3> QED BY <3>2 DEF FirstStep, Saves, Handlers
  <2>3. UNCHANGED <<backend, snapshots, audit, registry>>
    BY <1>3 DEF Begin, documents
  <2> QED BY <1>0, <1>2, <2>1, <2>2, <2>3 DEF Deleting, STypeOK
<1>4. ASSUME NEW c \in Clients, Busy(c), call[c].op # "DeleteTenant",
             NEW s, NEW k, call' = [call EXCEPT ![c].step = s, ![c].keep = k],
             UNCHANGED <<backend, snapshots, audit, registry>>
      PROVE  DeletesOK'
  <2>1. /\ call = [d \in Clients |-> call[d]]
        /\ call[c] = [op |-> call[c].op, t |-> call[c].t, arg |-> call[c].arg,
                      step |-> call[c].step, keep |-> call[c].keep]
    BY <1>0, <1>4, CallShape
  <2>2. call'[c].op = call[c].op /\ \A d \in Clients \ {c} : call'[d] = call[d]
    BY <1>4, <2>1
  <2>3. UNCHANGED <<backend, snapshots, audit, registry>> /\ call[c].op # "DeleteTenant"
    BY <1>4
  <2> QED BY <1>0, <1>2, <2>2, <2>3 DEF Deleting, STypeOK
<1>5. ASSUME NEW c \in Clients, Ends(c) \/ Moves(c), backend' = backend,
             snapshots' \in [Tenants -> Nat], audit' \in [Tenants -> Nat],
             \A t \in Tenants : snapshots'[t] >= snapshots[t] /\ audit'[t] >= audit[t],
             \A d \in Clients, t \in Tenants : Deleting(d, t) /\ d # c =>
               \A h \in call[d].keep.hashes : registry'[h] = registry[h]
      PROVE  DeletesOK'
  <2>1. \A d \in Clients, t \in Tenants :
          Deleting(d, t)' => Deleting(d, t) /\ d # c /\ call'[d] = call[d]
    BY <1>0, <1>5, DeletingKept
  <2> QED BY <1>2, <1>5, <2>1
<1>6. ASSUME NEW c \in Clients, CreateServiceAccount(c) \/ RotateServiceAccountKey(c)
      PROVE  DeletesOK'
  <2>1. /\ Busy(c) /\ call[c].op # "DeleteTenant"
        /\ UNCHANGED <<backend, snapshots, audit, registry>>
    BY <1>6 DEF CreateServiceAccount, RotateServiceAccountKey, ReadTenant, At, Busy, documents
  <2>2. CASE Return(c)
    BY <1>0, <1>5, <2>1, <2>2 DEF Ends, STypeOK
  <2>3. CASE \E k : call' = [call EXCEPT ![c].step = "validate", ![c].keep = k]
    BY <1>4, <2>1, <2>3
  <2>4. Return(c) \/ \E k : call' = [call EXCEPT ![c].step = "validate", ![c].keep = k]
    BY <1>6 DEF CreateServiceAccount, RotateServiceAccountKey, ReadTenant
  <2> QED BY <2>2, <2>3, <2>4
<1>7. ASSUME NEW c \in Clients, MemoryOperation(c)
      PROVE  DeletesOK'
  <2>1. Return(c) /\ backend = "memory"
    BY <1>7, MemoryEnds
  <2> QED BY <1>0, <2>1, DeletingKept DEF DeletesOK, Ends
<1>8. ASSUME NEW c \in Clients, PostgresOperation(c)
      PROVE  DeletesOK'
  <2>1. CallType(call[c]) /\ Busy(c) /\ backend = "postgres" /\ UNCHANGED backend
    BY <1>0, <1>8, PostgresSteps DEF CallsOK, Idle, Busy
  <2>2. CASE ReadOnly /\ (Ends(c) \/ Moves(c))
    BY <1>0, <1>5, <2>1, <2>2 DEF ReadOnly, documents, STypeOK
  <2>3. CASE PgEnsureTenant(c) /\ (Ends(c) \/ Moves(c))
    BY <1>0, <1>5, <2>1, <2>3 DEF PgEnsureTenant, documents, STypeOK
  <2>4. CASE Inserts(c) /\ Ends(c)
    <3>1. /\ UNCHANGED registry /\ call[c].t \in Tenants
          /\ snapshots' \in {snapshots, [snapshots EXCEPT ![call[c].t] = @ + 1]}
          /\ audit' \in {audit, [audit EXCEPT ![call[c].t] = @ + 1]}
      BY <2>1, <2>4 DEF CallType, Inserts, PgSaveDiscoveryInsert, PgSaveMigrationUpsert,
           PgSaveRecoveryPointUpsert, PgSaveAuditEventInsert, PgCreateWorkspaceInsert,
           PgSaveWorkspaceJobUpsert, Write, InsertSnapshot
    <3> QED BY <1>0, <1>5, <2>1, <2>4, <3>1 DEF STypeOK
  <2>5. CASE PgValidateTenant(c)
    <3>1. /\ UNCHANGED <<snapshots, audit, registry>> /\ call[c].op # "DeleteTenant"
          /\ Return(c) \/ Goto(c, "commit")
      BY <2>5 DEF PgValidateTenant, ReadOnly, documents, Statement, At, Handlers
    <3>2. CASE Return(c)
      BY <1>0, <1>5, <2>1, <3>1, <3>2 DEF Ends, STypeOK
    <3>3. CASE Goto(c, "commit")
      <4>1. /\ call'[c] = [op |-> call[c].op, t |-> call[c].t, arg |-> call[c].arg,
                           step |-> "commit", keep |-> call[c].keep]
            /\ \A d \in Clients \ {c} : call'[d] = call[d]
        BY <1>0, <2>1, <3>3, CallEffects
      <4> QED BY <1>0, <1>2, <2>1, <3>1, <4>1 DEF Deleting, STypeOK
    <3> QED BY <3>1, <3>2, <3>3
  <2>6. CASE PgDeleteWorkspaceJobs(c)
    <3>1. /\ UNCHANGED <<snapshots, audit, registry>> /\ call[c].op # "DeleteTenant"
      BY <2>6 DEF PgDeleteWorkspaceJobs, ReadOnly, documents, Statement, At
    <3>2. \E k : call' = [call EXCEPT ![c].step = "commit", ![c].keep = k]
      BY <2>6 DEF PgDeleteWorkspaceJobs
    <3> QED BY <1>4, <2>1, <3>1, <3>2
  <2>7. CASE PgDeleteTenantRows(c)
    <3>1. /\ UNCHANGED <<snapshots, audit, registry>> /\ <<call[c].t>> \notin BeingDeleted
      BY <2>7 DEF PgDeleteTenantRows, ReadOnly, documents
    <3>2. CASE Return(c)
      BY <1>0, <1>5, <2>1, <3>1, <3>2 DEF Ends, STypeOK
    <3>3. CASE call' = [call EXCEPT ![c].step = "commit", ![c].keep = RowsOf(call[c].t)]
      <4> DEFINE u == call[c].t
      <4>1. \A d \in Clients : ~Deleting(d, u)
        BY <3>1 DEF BeingDeleted, Deleting, At
      <4>2. /\ call = [d \in Clients |-> call[d]]
            /\ call[c] = [op |-> call[c].op, t |-> call[c].t, arg |-> call[c].arg,
                          step |-> call[c].step, keep |-> call[c].keep]
        BY <1>0, <2>1, CallShape
      <4>3. call'[c].t = u /\ call'[c].keep = RowsOf(u) /\ \A d \in Clients \ {c} : call'[d] = call[d]
        BY <3>3, <4>2
      <4>4. u \in Tenants /\ snapshots[u] \in Nat /\ audit[u] \in Nat
        BY <1>0, <2>1 DEF CallType, STypeOK
      <4>5. /\ RowsOf(u).snapshots = snapshots[u] /\ RowsOf(u).audit = audit[u]
            /\ \A h \in RowsOf(u).hashes : h \in HashesOf(u)
        BY DEF RowsOf, HashesOf
      <4> HIDE DEF u
      <4>6. \A d \in Clients, t \in Tenants : Deleting(d, t)' =>
              (d = c /\ t = u) \/ (d # c /\ t # u /\ Deleting(d, t) /\ call'[d] = call[d])
        BY <4>1, <4>3 DEF Deleting
      <4>7. /\ backend' = "postgres" /\ snapshots' = snapshots /\ audit' = audit
            /\ \A t \in Tenants : HashesOf(t)' = HashesOf(t)
        BY <2>1, <3>1 DEF HashesOf
      <4> QED BY <1>0, <4>3, <4>4, <4>5, <4>6, <4>7 DEF DeletesOK
    <3> QED BY <2>7, <3>2, <3>3 DEF PgDeleteTenantRows
  <2>8. CASE (PgCreateTenantCommit(c) \/ PgUpdateTenantCommit(c)) /\ Ends(c)
    <3>1. /\ UNCHANGED <<snapshots, audit>>
          /\ \/ registry' = registry
             \/ \E cred :
                  /\ replaceTenantCredentialHashes(call[c].t, cred)
                  /\ (Registry!tenantCredentialHashes(cred) \cup HashesOf(call[c].t)) \cap LockedHashes = {}
      BY <2>8 DEF PgCreateTenantCommit, PgUpdateTenantCommit, documents
    <3>2. ASSUME NEW d \in Clients, NEW t \in Tenants, Deleting(d, t), NEW h \in call[d].keep.hashes
          PROVE  registry'[h] = registry[h]
      <4>1. h \in LockedHashes
        BY <3>2 DEF LockedHashes, Deleting, At
      <4>2. h \in Hashes
        BY <1>0, <3>2 DEF DeletesOK, HashesOf
      <4> QED BY <3>1, <4>1, <4>2 DEF replaceTenantCredentialHashes
    <3> QED BY <1>0, <1>5, <2>1, <2>8, <3>1, <3>2 DEF STypeOK
  <2>9. CASE PgDeleteTenantCommit(c) /\ Ends(c)
    <3> DEFINE u == call[c].t
    <3>1. /\ RemoveRows(u, call[c].keep) /\ Deleting(c, u)
          /\ registry' = [h \in Hashes |-> IF h \in call[c].keep.hashes THEN None ELSE registry[h]]
      BY <2>9 DEF PgDeleteTenantCommit, Statement, At, Deleting
    <3>2. u \in Tenants
      BY <2>1 DEF CallType
    <3>3. \A t \in Tenants \ {u} : snapshots'[t] = snapshots[t] /\ audit'[t] = audit[t]
      BY <1>0, <3>1, <3>2 DEF RemoveRows, STypeOK
    <3>4. \A h \in call[c].keep.hashes : h \in HashesOf(u)
      BY <1>0, <3>1, <3>2 DEF DeletesOK
    <3> HIDE DEF u
    <3>5. ASSUME NEW d \in Clients, NEW t \in Tenants, Deleting(d, t)'
          PROVE  /\ Deleting(d, t) /\ call'[d] = call[d] /\ t # u
                 /\ \A h \in call[d].keep.hashes : registry'[h] = registry[h]
      <4>1. Deleting(d, t) /\ call'[d] = call[d] /\ d # c
        BY <1>0, <2>9, <3>5, DeletingKept
      <4>2. t # u
        BY <1>0, <3>1, <3>2, <4>1 DEF DeletesOK
      <4>3. \A h \in call[d].keep.hashes : h \in HashesOf(t)
        BY <1>0, <4>1 DEF DeletesOK
      <4> QED BY <3>1, <3>4, <4>1, <4>2, <4>3 DEF HashesOf
    <3> QED BY <1>0, <1>2, <2>1, <3>3, <3>5 DEF STypeOK
  <2>10. CASE PgDeleteWorkspaceCommit(c) /\ Ends(c)
    BY <1>0, <1>5, <2>1, <2>10 DEF PgDeleteWorkspaceCommit, STypeOK
  <2> QED BY <1>8, <2>2, <2>3, <2>4, <2>5, <2>6, <2>7, <2>8, <2>9, <2>10, PostgresSteps DEF Commits
<1>9. CASE PgLoadTenants \/ PgSeedHashes \/ PgClearPlaintext
  <2>1. call' = call /\ phase # "open"
    BY <1>9 DEF PgLoadTenants, PgSeedHashes, PgClearPlaintext, Opening
  <2> QED BY <1>0, <2>1 DEF DeletesOK, Deleting, CallsOK, Idle
<1>10. CASE Restart
  BY <1>10 DEF Restart, DeletesOK, Deleting, Idle
<1> QED BY <1>1, <1>3, <1>6, <1>7, <1>8, <1>9, <1>10 DEF Next

\* A commit that writes credentials without a conflict registers them under their
\* owners and leaves the digests of other tenants alone.
LEMMA ReplaceFacts ==
  ASSUME STypeOK, NEW t \in Tenants, NEW cred \in Registry!Credentials,
         Registry!validateWithinTenant(cred), NoHashConflict(t, cred),
         replaceTenantCredentialHashes(t, cred)
  PROVE  /\ \A o \in Owners : cred[o] # None => registry'[cred[o]] = <<t, o>>
         /\ \A h \in Hashes : registry[h] # None /\ registry[h][1] # t =>
              registry'[h] = registry[h] /\ h \notin Registry!tenantCredentialHashes(cred)
<1>1. ASSUME NEW o \in Owners, cred[o] # None
      PROVE  registry'[cred[o]] = <<t, o>>
  <2>1. cred[o] \in Hashes
    BY <1>1 DEF Registry!Credentials, Owners
  <2>2. cred[o] \in Registry!tenantCredentialHashes(cred)
    BY <1>1 DEF Registry!tenantCredentialHashes, Owners
  <2>3. registry'[cred[o]] = <<t, CHOOSE p \in Owners : cred[p] = cred[o]>>
    BY <2>1, <2>2 DEF replaceTenantCredentialHashes
  <2>4. \A p \in Owners : cred[p] = cred[o] => p = o
    BY <1>1 DEF Registry!validateWithinTenant, Owners
  <2>5. (CHOOSE p \in Owners : cred[p] = cred[o]) = o
    BY <2>4
  <2> QED BY <2>3, <2>5
<1>2. ASSUME NEW h \in Hashes, registry[h] # None, registry[h][1] # t
      PROVE  registry'[h] = registry[h] /\ h \notin Registry!tenantCredentialHashes(cred)
  BY <1>2 DEF NoHashConflict, HashesOf, replaceTenantCredentialHashes
<1> QED BY <1>1, <1>2

\* Every step keeps the registry of digests.
LEMMA RegisteredStep ==
  ASSUME StoreInv, [Next]_vars
  PROVE  RegisteredOK'
<1>0. STypeOK /\ CallsOK /\ DeletesOK /\ RegisteredOK
  BY DEF StoreInv
<1>1. ASSUME UNCHANGED <<backend, phase, tenants, plain, registry>>
      PROVE  RegisteredOK'
  BY <1>0, <1>1 DEF RegisteredOK, ErasedOnlyWhenRegistered, Exists
<1>2. CASE UNCHANGED vars
  BY <1>1, <1>2 DEF vars
<1>3. ASSUME NEW c \in Clients, Begin(c) \/ CreateServiceAccount(c) \/ RotateServiceAccountKey(c)
      PROVE  RegisteredOK'
  BY <1>1, <1>3 DEF Begin, CreateServiceAccount, RotateServiceAccountKey, ReadTenant
<1>4. ASSUME NEW c \in Clients, MemoryOperation(c)
      PROVE  RegisteredOK'
  BY <1>4, MemoryEnds DEF RegisteredOK, ErasedOnlyWhenRegistered
<1>5. ASSUME NEW c \in Clients, NEW t \in Tenants, NEW cred \in Registry!Credentials,
             Registry!validateWithinTenant(cred), NoHashConflict(t, cred),
             replaceTenantCredentialHashes(t, cred), tenants' = [tenants EXCEPT ![t] = cred],
             UNCHANGED <<backend, phase, plain>>, backend = "postgres", phase = "open"
      PROVE  RegisteredOK'
  <2>1. plain = {} /\ plain' = {}
    BY <1>0, <1>5 DEF RegisteredOK
  <2>2. ASSUME NEW u \in Tenants, tenants'[u] # None, NEW o \in Owners, tenants'[u][o] # None
        PROVE  registry'[tenants'[u][o]] = <<u, o>>
    <3>1. CASE u = t
      BY <1>0, <1>5, <2>2, <3>1, ReplaceFacts DEF STypeOK
    <3>2. CASE u # t
      <4>1. tenants'[u] = tenants[u]
        BY <1>0, <1>5, <3>2 DEF STypeOK
      <4>2. registry[tenants[u][o]] = <<u, o>>
        BY <1>0, <1>5, <2>1, <2>2, <4>1 DEF RegisteredOK, ErasedOnlyWhenRegistered, Exists
      <4>3. tenants[u][o] \in Hashes
        BY <1>0, <2>2, <4>1 DEF STypeOK, Registry!Credentials, Owners
      <4>4. registry[tenants[u][o]] # None /\ registry[tenants[u][o]][1] # t
        BY <3>2, <4>2, NoneFacts
      <4> QED BY <1>0, <1>5, <4>1, <4>2, <4>3, <4>4, ReplaceFacts
    <3> QED BY <3>1, <3>2
  <2> QED BY <2>1, <2>2 DEF RegisteredOK, ErasedOnlyWhenRegistered, Exists
<1>6. ASSUME NEW c \in Clients, PostgresOperation(c)
      PROVE  RegisteredOK'
  <2>1. /\ CallType(call[c]) /\ UNCHANGED <<backend, phase, plain>>
        /\ backend = "postgres" /\ phase = "open"
    BY <1>0, <1>6, PostgresSteps DEF CallsOK, Idle, Busy
  <2>2. CASE ReadOnly
    BY <1>1, <2>1, <2>2 DEF ReadOnly
  <2>3. CASE PgEnsureTenant(c)
    <3>1. /\ UNCHANGED registry
          /\ \/ tenants' = tenants
             \/ tenants' = [tenants EXCEPT ![DefaultTenant] = Registry!NoCredentials]
      BY <2>3 DEF PgEnsureTenant
    <3>2. \A o \in Owners : Registry!NoCredentials[o] = None
      BY DEF Registry!NoCredentials, Owners
    <3> QED BY <1>0, <2>1, <3>1, <3>2, NoneFacts
            DEF RegisteredOK, ErasedOnlyWhenRegistered, Exists, STypeOK
  <2>4. CASE Inserts(c)
    BY <1>1, <2>1, <2>4 DEF Inserts, PgSaveDiscoveryInsert, PgSaveMigrationUpsert,
       PgSaveRecoveryPointUpsert, PgSaveAuditEventInsert, PgCreateWorkspaceInsert,
       PgSaveWorkspaceJobUpsert, Write
  <2>5. CASE PgCreateTenantCommit(c)
    <3>1. call[c].op = "CreateTenant"
      BY <2>5 DEF PgCreateTenantCommit, Statement, At
    <3>2. /\ call[c].t \in Tenants /\ call[c].arg \in Registry!Credentials
          /\ Registry!validateWithinTenant(call[c].arg)
      BY <2>1, <3>1, InitialFacts DEF CallType
    <3>3. \/ UNCHANGED <<tenants, registry>>
          \/ /\ NoHashConflict(call[c].t, call[c].arg)
             /\ tenants' = [tenants EXCEPT ![call[c].t] = call[c].arg]
             /\ replaceTenantCredentialHashes(call[c].t, call[c].arg)
      BY <2>5 DEF PgCreateTenantCommit
    <3> QED BY <1>1, <1>5, <2>1, <3>2, <3>3
  <2>6. CASE PgUpdateTenantCommit(c)
    <3>1. call[c].op \in Handlers /\ call[c].step = "commit"
      BY <2>6 DEF PgUpdateTenantCommit, Statement, At
    <3>2. /\ call[c].t \in Tenants /\ call[c].keep \in Registry!Credentials
          /\ Registry!validateWithinTenant(call[c].keep)
      BY <2>1, <3>1 DEF CallType
    <3>3. \/ UNCHANGED <<tenants, registry>>
          \/ /\ NoHashConflict(call[c].t, call[c].keep)
             /\ tenants' = [tenants EXCEPT ![call[c].t] = call[c].keep]
             /\ replaceTenantCredentialHashes(call[c].t, call[c].keep)
      BY <2>6 DEF PgUpdateTenantCommit
    <3> QED BY <1>1, <1>5, <2>1, <3>2, <3>3
  <2>7. CASE PgDeleteTenantCommit(c)
    <3> DEFINE t == call[c].t
    <3>1. /\ registry' = [h \in Hashes |-> IF h \in call[c].keep.hashes THEN None ELSE registry[h]]
          /\ tenants' = [tenants EXCEPT ![t] = None]
          /\ Deleting(c, t) /\ t \in Tenants
      BY <2>1, <2>7 DEF PgDeleteTenantCommit, Statement, At, Deleting, CallType
    <3>2. \A h \in call[c].keep.hashes : registry[h][1] = t
      BY <1>0, <3>1 DEF DeletesOK, HashesOf
    <3> HIDE DEF t
    <3>3. plain = {} /\ plain' = {}
      BY <1>0, <2>1 DEF RegisteredOK
    <3>4. ASSUME NEW u \in Tenants, tenants'[u] # None, NEW o \in Owners, tenants'[u][o] # None
          PROVE  registry'[tenants'[u][o]] = <<u, o>>
      <4>1. u # t /\ tenants'[u] = tenants[u]
        BY <1>0, <3>1, <3>4 DEF STypeOK
      <4>2. registry[tenants[u][o]] = <<u, o>>
        BY <1>0, <2>1, <3>3, <3>4, <4>1 DEF RegisteredOK, ErasedOnlyWhenRegistered, Exists
      <4>3. tenants[u][o] \in Hashes
        BY <1>0, <3>4, <4>1 DEF STypeOK, Registry!Credentials, Owners
      <4>4. tenants[u][o] \notin call[c].keep.hashes
        BY <3>2, <4>1, <4>2
      <4> QED BY <3>1, <4>1, <4>2, <4>3, <4>4
    <3> QED BY <3>3, <3>4 DEF RegisteredOK, ErasedOnlyWhenRegistered, Exists
  <2>8. CASE PgDeleteWorkspaceCommit(c)
    BY <1>1, <2>1, <2>8 DEF PgDeleteWorkspaceCommit
  <2> QED BY <1>6, <2>2, <2>3, <2>4, <2>5, <2>6, <2>7, <2>8, PostgresSteps DEF Commits
<1>7. CASE PgLoadTenants
  BY <1>0, <1>7 DEF PgLoadTenants, Opening, RegisteredOK, ErasedOnlyWhenRegistered, Exists
<1>8. CASE PgSeedHashes
  <2>1. \A h \in Hashes : registry[h] # None => registry'[h] = registry[h]
    BY <1>8 DEF PgSeedHashes
  <2>2. UNCHANGED <<backend, tenants, plain>> /\ phase' = "seeded"
    BY <1>8 DEF PgSeedHashes, Opening
  <2>3. \A t \in Tenants, o \in Owners : tenants[t] # None /\ tenants[t][o] # None
          => tenants[t][o] \in Hashes
    BY <1>0 DEF STypeOK, Registry!Credentials, Owners
  <2> QED BY <1>0, <2>1, <2>2, <2>3, NoneFacts DEF RegisteredOK, ErasedOnlyWhenRegistered, Exists
<1>9. CASE PgClearPlaintext
  <2>1. UNCHANGED <<backend, tenants, registry>>
    BY <1>9 DEF PgClearPlaintext, Opening
  <2>2. CASE phase' = "failed" /\ UNCHANGED plain
    BY <1>0, <2>1, <2>2 DEF RegisteredOK, ErasedOnlyWhenRegistered, Exists
  <2>3. CASE /\ plain' = {} /\ phase' = "open"
             /\ \A t \in Tenants : Exists(t) =>
                  \A o \in Owners : tenants[t][o] # None => registry[tenants[t][o]] = <<t, o>>
    BY <2>1, <2>3 DEF RegisteredOK, ErasedOnlyWhenRegistered, Exists
  <2> QED BY <1>9, <2>2, <2>3 DEF PgClearPlaintext
<1>10. CASE Restart
  BY <1>0, <1>10 DEF Restart, RegisteredOK, ErasedOnlyWhenRegistered, Exists
<1> QED BY <1>2, <1>3, <1>4, <1>6, <1>7, <1>8, <1>9, <1>10 DEF Next

\* The inductive invariant of both stores.
LEMMA StoreInvHolds == Spec => []StoreInv
<1>1. Init => StoreInv
  <2> SUFFICES ASSUME Init PROVE StoreInv
    OBVIOUS
  <2>1. tenants \in [Tenants -> Registry!Credentials \cup {None}]
    BY NoneFacts DEF Init, DefaultOnly, LegacyTenants
  <2>2. STypeOK
    BY <2>1, StoreAssumption DEF Init, STypeOK, Empty
  <2>3. CallsOK
    BY StoreAssumption DEF Init, CallsOK, Idle
  <2>4. DeletesOK /\ AckedOK
    BY DEF Init, DeletesOK, Deleting, Idle, AckedOK
  <2>5. RegisteredOK
    BY DEF Init, RegisteredOK, ErasedOnlyWhenRegistered, Exists
  <2> QED BY <2>2, <2>3, <2>4, <2>5 DEF StoreInv
<1>2. StoreInv /\ [Next]_vars => StoreInv'
  BY TypeStep, CallsStep, DeletesStep, RegisteredStep DEF StoreInv
<1> QED BY <1>1, <1>2, PTL DEF Spec

\* For every set of tenants, accounts and digests and every number of clients, a
\* key is registered under its owner while the store is open, and its plaintext is
\* erased only after that, through interleaved statements of creates, updates and
\* deletes and through crashes of the credential migration.
THEOREM CredentialsRegistered == Spec => []CredentialsAreRegistered
<1>1. StoreInv => CredentialsAreRegistered
  BY DEF StoreInv, RegisteredOK, CredentialsAreRegistered, HashesRegistered,
         ErasedOnlyWhenRegistered
<1> QED BY <1>1, StoreInvHolds, PTL

-----------------------------------------------------------------------------
\* What administrators were told.

\* A handler of tenant t has read the tenant and not written it back.
Pending(c, t) == call[c].op \in Handlers /\ call[c].step # "read" /\ call[c].t = t

\* Until another write overlaps, a handler's tenant is as the handler read it.
KeepOK ==
  \A c \in Clients, t \in Tenants : Pending(c, t) /\ t \notin overlapped =>
    Exists(t) /\ call[c].keep = WithAccount(tenants[t], call[c].arg)

AckInv == AcknowledgedKeysAreKept /\ KeepOK

\* A step that writes tenant t and ends the call of the writer.
LEMMA AckedWrite ==
  ASSUME StoreInv, AckInv, NEW c \in Clients, Ends(c), NEW t \in Tenants, NEW x, NEW y,
         tenants' = [tenants EXCEPT ![t] = x] \/ tenants' = tenants,
         Acknowledge(c, t, y),
         tenants' # tenants /\ t \notin overlapped => x = y
  PROVE  AckInv'
<1>0. /\ tenants = [u \in Tenants |-> tenants[u]] /\ acked = [u \in Tenants |-> acked[u]]
      /\ AcknowledgedKeysAreKept /\ KeepOK /\ CallsOK
  BY DEF StoreInv, STypeOK, AckInv
<1>1. \A d \in Clients, u \in Tenants :
        Pending(d, u)' => Pending(d, u) /\ d # c /\ call'[d] = call[d]
  BY <1>0, CallEffects DEF Ends, Pending, Handlers, Idle
<1>2. CASE tenants' = tenants
  <2>1. UNCHANGED <<acked, overlapped>>
    BY <1>2 DEF Acknowledge
  <2> QED BY <1>0, <1>1, <1>2, <2>1 DEF AckInv, AcknowledgedKeysAreKept, KeepOK, Exists
<1>3. CASE tenants' # tenants
  <2>1. /\ tenants' = [tenants EXCEPT ![t] = x] /\ acked' = [acked EXCEPT ![t] = y]
        /\ overlapped' = IF HandlerPending(c, t) THEN overlapped \cup {t} ELSE overlapped
    BY <1>3 DEF Acknowledge
  <2>2. ASSUME NEW u \in Tenants \ overlapped'
        PROVE  tenants'[u] = acked'[u]
    BY <1>0, <1>3, <2>1, <2>2 DEF AcknowledgedKeysAreKept
  <2>3. ASSUME NEW d \in Clients, NEW u \in Tenants, Pending(d, u)', u \notin overlapped'
        PROVE  tenants'[u] # None /\ call'[d].keep = WithAccount(tenants'[u], call'[d].arg)
    <3>1. Pending(d, u) /\ d # c /\ call'[d] = call[d]
      BY <1>1, <2>3
    <3>2. u # t
      BY <2>1, <2>3, <3>1 DEF HandlerPending, Pending
    <3>3. tenants'[u] = tenants[u] /\ u \notin overlapped
      BY <1>0, <2>1, <2>3, <3>2
    <3> QED BY <1>0, <3>1, <3>3 DEF KeepOK, Exists
  <2> QED BY <2>2, <2>3 DEF AckInv, AcknowledgedKeysAreKept, KeepOK, Exists
<1> QED BY <1>2, <1>3

\* A step that writes no tenant and does not touch what other handlers keep.
LEMMA AckedKept ==
  ASSUME AckInv, UNCHANGED <<tenants, acked, overlapped>>,
         \A d \in Clients, t \in Tenants : Pending(d, t)' =>
           \/ Pending(d, t) /\ call'[d].keep = call[d].keep /\ call'[d].arg = call[d].arg
           \/ Exists(t) /\ call'[d].keep = WithAccount(tenants[t], call'[d].arg)
  PROVE  AckInv'
BY DEF AckInv, AcknowledgedKeysAreKept, KeepOK, Exists

\* Every step keeps it.
LEMMA AckInvStep ==
  ASSUME StoreInv, AckInv, [Next]_vars
  PROVE  AckInv'
<1>0. STypeOK /\ CallsOK
  BY DEF StoreInv
<1>1. CASE UNCHANGED vars
  BY <1>1 DEF vars, history, AckInv, AcknowledgedKeysAreKept, KeepOK, Pending, Exists
<1>2. ASSUME NEW c \in Clients, Begin(c)
      PROVE  AckInv'
  <2>1. PICK r \in Requests :
          call' = [call EXCEPT ![c] = [op |-> r.op, t |-> r.t, arg |-> r.arg,
                                       step |-> FirstStep(r.op), keep |-> None]]
    BY <1>2 DEF Begin
  <2>2. /\ call'[c].op = r.op /\ call'[c].step = FirstStep(r.op)
        /\ \A d \in Clients \ {c} : call'[d] = call[d]
    BY <1>0, <2>1 DEF CallsOK
  <2>3. r.op \in Handlers => FirstStep(r.op) = "read"
    BY DEF FirstStep, Saves, Handlers
  <2>4. UNCHANGED <<tenants, acked, overlapped>>
    BY <1>2 DEF Begin, history
  <2> QED BY <2>2, <2>3, <2>4, AckedKept DEF Pending
<1>3. ASSUME NEW c \in Clients, Ends(c) \/ Moves(c), UNCHANGED <<tenants, acked, overlapped>>
      PROVE  AckInv'
  <2>1. CASE Ends(c)
    <3>1. call'[c] = Idle /\ \A d \in Clients \ {c} : call'[d] = call[d]
      BY <1>0, <2>1, CallEffects DEF Ends
    <3> QED BY <1>3, <3>1, AckedKept DEF Pending, Handlers, Idle
  <2>2. CASE Moves(c)
    <3>1. PICK s : Goto(c, s)
      BY <2>2 DEF Moves
    <3>2. Busy(c) /\ call[c].op \notin Handlers
      BY <2>2 DEF Moves
    <3>3. /\ call'[c] = [op |-> call[c].op, t |-> call[c].t, arg |-> call[c].arg,
                         step |-> s, keep |-> call[c].keep]
          /\ \A d \in Clients \ {c} : call'[d] = call[d]
      BY <1>0, <3>1, <3>2, CallEffects
    <3> QED BY <1>3, <3>2, <3>3, AckedKept DEF Pending
  <2> QED BY <1>3, <2>1, <2>2
<1>4. ASSUME NEW c \in Clients, CreateServiceAccount(c) \/ RotateServiceAccountKey(c)
      PROVE  AckInv'
  <2>1. Busy(c) /\ UNCHANGED <<tenants, acked, overlapped>>
    BY <1>4 DEF CreateServiceAccount, RotateServiceAccountKey, ReadTenant, At, Busy, history
  <2>2. CASE Return(c)
    BY <1>3, <2>1, <2>2 DEF Ends
  <2>3. CASE Exists(call[c].t) /\ call' = [call EXCEPT ![c].step = "validate",
               ![c].keep = WithAccount(tenants[call[c].t], call[c].arg)]
    <3>1. /\ call = [d \in Clients |-> call[d]]
          /\ call[c] = [op |-> call[c].op, t |-> call[c].t, arg |-> call[c].arg,
                        step |-> call[c].step, keep |-> call[c].keep]
      BY <1>0, <2>1, CallShape
    <3>2. /\ call'[c].t = call[c].t /\ call'[c].arg = call[c].arg
          /\ call'[c].keep = WithAccount(tenants[call[c].t], call[c].arg)
          /\ \A d \in Clients \ {c} : call'[d] = call[d]
      BY <2>3, <3>1
    <3>3. Exists(call[c].t)
      BY <2>3
    <3> QED BY <2>1, <3>2, <3>3, AckedKept DEF Pending
  <2> QED BY <1>4, <2>2, <2>3 DEF CreateServiceAccount, RotateServiceAccountKey, ReadTenant
<1>5. ASSUME NEW c \in Clients,
             \/ MemSaveDiscovery(c) \/ MemSaveMigration(c) \/ MemSaveRecoveryPoint(c)
             \/ MemSaveAuditEvent(c) \/ MemCreateWorkspace(c) \/ MemUpdateWorkspace(c)
             \/ MemDeleteWorkspace(c) \/ MemSaveWorkspaceJob(c)
      PROVE  AckInv'
  BY <1>3, <1>5 DEF Ends, MemSaveDiscovery, MemSaveMigration, MemSaveRecoveryPoint,
       MemSaveAuditEvent, MemCreateWorkspace, MemUpdateWorkspace, MemDeleteWorkspace,
       MemSaveWorkspaceJob, NoHistory
<1>6. ASSUME NEW c \in Clients, MemCreateTenant(c) \/ PgCreateTenantCommit(c)
      PROVE  AckInv'
  <2>1. /\ Ends(c) /\ call[c].op = "CreateTenant"
        /\ \/ tenants' = [tenants EXCEPT ![call[c].t] = call[c].arg]
           \/ tenants' = tenants
        /\ Acknowledge(c, call[c].t, call[c].arg)
    BY <1>6 DEF MemCreateTenant, PgCreateTenantCommit, Created, Ends, Memory, Statement, At
  <2>2. call[c].t \in Tenants
    BY <1>0, <2>1 DEF CallsOK, CallType, Idle
  <2> QED BY <2>1, <2>2, AckedWrite
<1>7. ASSUME NEW c \in Clients, MemUpdateTenant(c) \/ PgUpdateTenantCommit(c)
      PROVE  AckInv'
  <2> DEFINE t == call[c].t
  <2>1. /\ Ends(c) /\ Pending(c, t)
        /\ tenants' = [tenants EXCEPT ![t] = call[c].keep] \/ tenants' = tenants
        /\ Acknowledge(c, t, WithAccount(acked[t], call[c].arg))
    BY <1>7 DEF MemUpdateTenant, PgUpdateTenantCommit, Updated, Ends, Statement, At, Pending
  <2>2. t \in Tenants
    BY <1>0, <2>1 DEF CallsOK, CallType, Idle, Pending, Handlers
  <2>3. t \notin overlapped => call[c].keep = WithAccount(acked[t], call[c].arg)
    BY <2>1, <2>2 DEF AckInv, KeepOK, AcknowledgedKeysAreKept
  <2> HIDE DEF t
  <2> QED BY <2>1, <2>2, <2>3, AckedWrite
<1>8. ASSUME NEW c \in Clients, MemDeleteTenant(c) \/ PgDeleteTenantCommit(c)
      PROVE  AckInv'
  <2>1. /\ Ends(c) /\ call[c].op = "DeleteTenant"
        /\ \/ tenants' = [tenants EXCEPT ![call[c].t] = None]
           \/ tenants' = tenants
        /\ Acknowledge(c, call[c].t, None)
    BY <1>8 DEF MemDeleteTenant, PgDeleteTenantCommit, Ends, Memory, Statement, At
  <2>2. call[c].t \in Tenants
    BY <1>0, <2>1 DEF CallsOK, CallType, Idle
  <2> QED BY <2>1, <2>2, AckedWrite
<1>9. ASSUME NEW c \in Clients, PostgresOperation(c)
      PROVE  AckInv'
  <2>1. CASE ReadOnly /\ (Ends(c) \/ Moves(c))
    BY <1>3, <2>1 DEF ReadOnly, history
  <2>2. CASE PgEnsureTenant(c) /\ (Ends(c) \/ Moves(c))
    <3>1. /\ UNCHANGED overlapped
          /\ \/ tenants' = tenants /\ acked' = acked
             \/ /\ ~Exists(DefaultTenant)
                /\ tenants' = [tenants EXCEPT ![DefaultTenant] = Registry!NoCredentials]
                /\ acked' = [acked EXCEPT ![DefaultTenant] = Registry!NoCredentials]
      BY <2>2 DEF PgEnsureTenant
    <3>2. CASE tenants' = tenants /\ acked' = acked
      BY <1>3, <2>2, <3>1, <3>2
    <3>3. CASE /\ ~Exists(DefaultTenant)
               /\ tenants' = [tenants EXCEPT ![DefaultTenant] = Registry!NoCredentials]
               /\ acked' = [acked EXCEPT ![DefaultTenant] = Registry!NoCredentials]
      <4>1. \A u \in Tenants : u # DefaultTenant => tenants'[u] = tenants[u] /\ acked'[u] = acked[u]
        BY <1>0, <3>3 DEF STypeOK
      <4>2. tenants'[DefaultTenant] = acked'[DefaultTenant]
        BY <1>0, <3>3, NoneFacts DEF STypeOK
      <4>3. \A d \in Clients, u \in Tenants : Pending(d, u)' => Pending(d, u) /\ call'[d] = call[d]
        <5>1. CASE Ends(c)
          BY <1>0, <5>1, CallEffects DEF Ends, Pending, Handlers, Idle
        <5>2. CASE Moves(c)
          <6>1. PICK s : Goto(c, s)
            BY <5>2 DEF Moves
          <6>2. Busy(c) /\ call[c].op \notin Handlers
            BY <5>2 DEF Moves
          <6>3. /\ call'[c] = [op |-> call[c].op, t |-> call[c].t, arg |-> call[c].arg,
                               step |-> s, keep |-> call[c].keep]
                /\ \A d \in Clients \ {c} : call'[d] = call[d]
            BY <1>0, <6>1, <6>2, CallEffects
          <6> QED BY <6>2, <6>3 DEF Pending
        <5> QED BY <2>2, <5>1, <5>2
      <4>4. \A d \in Clients : Pending(d, DefaultTenant) => DefaultTenant \in overlapped
        BY <3>3, NoneFacts DEF AckInv, KeepOK
      <4>5. ASSUME NEW d \in Clients, NEW u \in Tenants, Pending(d, u)', u \notin overlapped'
            PROVE  tenants'[u] # None /\ call'[d].keep = WithAccount(tenants'[u], call'[d].arg)
        <5>1. Pending(d, u) /\ call'[d] = call[d] /\ u \notin overlapped
          BY <3>1, <4>3, <4>5
        <5>2. tenants'[u] = tenants[u]
          BY <4>1, <4>4, <5>1
        <5> QED BY <5>1, <5>2 DEF AckInv, KeepOK, Exists
      <4> QED BY <3>1, <4>1, <4>2, <4>5 DEF AckInv, AcknowledgedKeysAreKept, KeepOK, Exists
    <3> QED BY <3>1, <3>2, <3>3
  <2>3. CASE Inserts(c) /\ Ends(c)
    BY <1>3, <2>3 DEF Inserts, PgSaveDiscoveryInsert, PgSaveMigrationUpsert,
       PgSaveRecoveryPointUpsert, PgSaveAuditEventInsert, PgCreateWorkspaceInsert,
       PgSaveWorkspaceJobUpsert, Write
  <2>4. CASE PgValidateTenant(c)
    <3>1. /\ UNCHANGED <<tenants, acked, overlapped>> /\ Busy(c) /\ call[c].step # "read"
          /\ Return(c) \/ Goto(c, "commit")
      BY <2>4 DEF PgValidateTenant, ReadOnly, history, Statement, At, Handlers, Busy
    <3>2. CASE Return(c)
      BY <1>3, <3>1, <3>2 DEF Ends
    <3>3. CASE Goto(c, "commit")
      <4>1. /\ call'[c] = [op |-> call[c].op, t |-> call[c].t, arg |-> call[c].arg,
                           step |-> "commit", keep |-> call[c].keep]
            /\ \A d \in Clients \ {c} : call'[d] = call[d]
        BY <1>0, <3>1, <3>3, CallEffects
      <4> QED BY <3>1, <4>1, AckedKept DEF Pending
    <3> QED BY <3>1, <3>2, <3>3
  <2>5. CASE PgDeleteTenantRows(c) \/ PgDeleteWorkspaceJobs(c)
    <3>1. /\ UNCHANGED <<tenants, acked, overlapped>> /\ Busy(c) /\ call[c].op \notin Handlers
      BY <2>5 DEF PgDeleteTenantRows, PgDeleteWorkspaceJobs, ReadOnly, history, Statement, At,
           Handlers, Busy
    <3>2. CASE Return(c)
      BY <1>3, <3>1, <3>2 DEF Ends
    <3>3. ASSUME NEW k, call' = [call EXCEPT ![c].step = "commit", ![c].keep = k]
          PROVE  AckInv'
      <4>1. /\ call = [d \in Clients |-> call[d]]
            /\ call[c] = [op |-> call[c].op, t |-> call[c].t, arg |-> call[c].arg,
                          step |-> call[c].step, keep |-> call[c].keep]
        BY <1>0, <3>1, CallShape
      <4>2. call'[c].op = call[c].op /\ \A d \in Clients \ {c} : call'[d] = call[d]
        BY <3>3, <4>1
      <4> QED BY <3>1, <4>2, AckedKept DEF Pending
    <3>4. Return(c) \/ \E k : call' = [call EXCEPT ![c].step = "commit", ![c].keep = k]
      BY <2>5 DEF PgDeleteTenantRows, PgDeleteWorkspaceJobs
    <3> QED BY <3>2, <3>3, <3>4
  <2>6. CASE PgDeleteWorkspaceCommit(c) /\ Ends(c)
    BY <1>3, <2>6 DEF PgDeleteWorkspaceCommit
  <2> QED BY <1>6, <1>7, <1>8, <1>9, <2>1, <2>2, <2>3, <2>4, <2>5, <2>6, PostgresSteps
          DEF Commits
<1>10. CASE PgLoadTenants \/ PgSeedHashes \/ PgClearPlaintext
  <2>1. UNCHANGED <<tenants, acked, overlapped, call>>
    BY <1>10 DEF PgLoadTenants, PgSeedHashes, PgClearPlaintext, Opening, history
  <2> QED BY <2>1, AckedKept DEF Pending
<1>11. CASE Restart
  <2>1. \A d \in Clients, t \in Tenants : ~Pending(d, t)'
    BY <1>11 DEF Restart, Pending, Handlers, Idle
  <2>2. UNCHANGED overlapped /\ (UNCHANGED <<tenants, acked>> \/ tenants' = acked')
    BY <1>11 DEF Restart, history
  <2> QED BY <2>1, <2>2 DEF AckInv, AcknowledgedKeysAreKept, KeepOK
<1> QED BY <1>1, <1>2, <1>4, <1>5, <1>6, <1>7, <1>8, <1>9, <1>10, <1>11
        DEF Next, MemoryOperation

\* For every number of administrators: as long as no two writers of a tenant
\* overlap, no acknowledged key is lost and no rotated key returns, through
\* failing statements, deletions and restarts.
THEOREM AcknowledgedKept == Spec => []AcknowledgedKeysAreKept
<1>1. Init => AckInv
  BY DEF Init, AckInv, AcknowledgedKeysAreKept, KeepOK, Pending, Handlers, Idle
<1>2. StoreInv /\ AckInv /\ [Next]_vars => AckInv'
  BY AckInvStep
<1>3. AckInv => AcknowledgedKeysAreKept
  BY DEF AckInv
<1> QED BY <1>1, <1>2, <1>3, StoreInvHolds, PTL DEF Spec

-----------------------------------------------------------------------------
\* Refinement: both stores implement TenantRegistry.

\* No credential has two owners while the store is open.
UniqueInv == phase = "open" => Unique

\* In PostgreSQL the registry of digests sees to it.
LEMMA RegisteredIsUnique ==
  ASSUME StoreInv, backend = "postgres", phase = "open"
  PROVE  Unique
<1>1. \A t \in Tenants, o \in Owners : tenants[t] # None /\ tenants[t][o] # None =>
        registry[tenants[t][o]] = <<t, o>>
  BY DEF StoreInv, RegisteredOK, ErasedOnlyWhenRegistered, Exists
<1> QED BY <1>1 DEF Unique, Registry!Unique, Owners

\* A write that passes validateCredentialUniqueness keeps credentials unique.
LEMMA UniqueWrite ==
  ASSUME STypeOK, Unique, NEW t \in Tenants, NEW cred,
         Registry!validateCredentialUniqueness(tenants, t, cred),
         tenants' = [tenants EXCEPT ![t] = cred]
  PROVE  Unique'
<1>1. \A u \in Tenants : tenants'[u] = IF u = t THEN cred ELSE tenants[u]
  BY DEF STypeOK
<1>2. \A o, p \in Owners : cred[o] # None /\ cred[o] = cred[p] => o = p
  BY DEF Registry!validateCredentialUniqueness, Registry!validateWithinTenant, Owners
<1>3. \A u \in Tenants \ {t} : tenants[u] # None =>
        \A o, p \in Owners : cred[o] # None => cred[o] # tenants[u][p]
  BY DEF Registry!validateCredentialUniqueness, Registry!tenantCredentialHashes, Owners
<1>4. \A u, v \in Tenants : \A o, p \in Owners :
        (tenants[u] # None /\ tenants[v] # None /\ tenants[u][o] # None
           /\ tenants[u][o] = tenants[v][p]) => u = v /\ o = p
  BY DEF Unique, Registry!Unique, Owners
<1>5. ASSUME NEW u \in Tenants, NEW v \in Tenants, NEW o \in Owners, NEW p \in Owners,
             tenants'[u] # None, tenants'[v] # None, tenants'[u][o] # None,
             tenants'[u][o] = tenants'[v][p]
      PROVE  u = v /\ o = p
  <2>1. CASE u = t /\ v = t
    BY <1>1, <1>2, <1>5, <2>1
  <2>2. CASE u = t /\ v # t
    BY <1>1, <1>3, <1>5, <2>2
  <2>3. CASE u # t /\ v = t
    BY <1>1, <1>3, <1>5, <2>3
  <2>4. CASE u # t /\ v # t
    BY <1>1, <1>4, <1>5, <2>4
  <2> QED BY <2>1, <2>2, <2>3, <2>4
<1> QED BY <1>5 DEF Unique, Registry!Unique, Owners

\* Removing a tenant, or adding one without credentials, keeps them unique too.
LEMMA UniqueLess ==
  ASSUME STypeOK, Unique, NEW t \in Tenants, NEW x \in {None, Registry!NoCredentials},
         tenants' = [tenants EXCEPT ![t] = x]
  PROVE  Unique'
<1>1. \A u \in Tenants : tenants'[u] = IF u = t THEN x ELSE tenants[u]
  BY DEF STypeOK
<1>2. x = None \/ \A o \in Owners : x[o] = None
  BY DEF Registry!NoCredentials, Owners
<1>3. \A u, v \in Tenants : \A o, p \in Owners :
        (tenants[u] # None /\ tenants[v] # None /\ tenants[u][o] # None
           /\ tenants[u][o] = tenants[v][p]) => u = v /\ o = p
  BY DEF Unique, Registry!Unique, Owners
<1>4. ASSUME NEW u \in Tenants, NEW v \in Tenants, NEW o \in Owners, NEW p \in Owners,
             tenants'[u] # None, tenants'[v] # None, tenants'[u][o] # None,
             tenants'[u][o] = tenants'[v][p]
      PROVE  u = v /\ o = p
  BY <1>1, <1>2, <1>3, <1>4
<1> QED BY <1>4 DEF Unique, Registry!Unique, Owners

\* A commit without a conflict of digests is one that the validation would pass
\* at that moment, although it ran before the transaction.
LEMMA CommitIsValid ==
  ASSUME StoreInv, backend = "postgres", phase = "open",
         NEW t \in Tenants, NEW cred \in Registry!Credentials,
         Registry!validateWithinTenant(cred), NoHashConflict(t, cred)
  PROVE  Registry!validateCredentialUniqueness(tenants, t, cred)
<1>1. \A u \in Tenants, o \in Owners : tenants[u] # None /\ tenants[u][o] # None =>
        registry[tenants[u][o]] = <<u, o>>
  BY DEF StoreInv, RegisteredOK, ErasedOnlyWhenRegistered, Exists
<1>2. ASSUME NEW u \in Tenants \ {t}, tenants[u] # None,
             NEW h \in Registry!tenantCredentialHashes(tenants[u])
      PROVE  h \notin Registry!tenantCredentialHashes(cred)
  <2>1. PICK o \in Owners : h = tenants[u][o] /\ h # None
    BY DEF Registry!tenantCredentialHashes, Owners
  <2>2. registry[h] = <<u, o>>
    BY <1>1, <1>2, <2>1
  <2> QED BY <2>2, NoneFacts DEF NoHashConflict, HashesOf
<1> QED BY <1>2 DEF Registry!validateCredentialUniqueness

\* How a step changes the tenants of an open store.
LEMMA TenantSteps ==
  ASSUME StoreInv, NEW c \in Clients, MemoryOperation(c) \/ PostgresOperation(c)
  PROVE  /\ phase = "open" /\ UNCHANGED <<backend, phase>>
         /\ \/ tenants' = tenants
            \/ \E t \in Tenants, cred \in Registry!Credentials :
                 /\ Registry!validateCredentialUniqueness(tenants, t, cred)
                 /\ tenants' = [tenants EXCEPT ![t] = cred]
            \/ \E t \in Tenants : /\ t # DefaultTenant /\ tenants[t] # None
                                  /\ tenants' = [tenants EXCEPT ![t] = None]
            \/ /\ tenants[DefaultTenant] = None
               /\ tenants' = [tenants EXCEPT ![DefaultTenant] = Registry!NoCredentials]
<1>0. STypeOK /\ CallsOK
  BY DEF StoreInv
<1>1. phase = "open" /\ UNCHANGED <<backend, phase>> /\ CallType(call[c])
  BY <1>0, MemoryEnds, PostgresSteps DEF CallsOK, Idle, Busy
<1>2. CASE MemCreateTenant(c)
  <2>1. call[c].op = "CreateTenant" /\ call[c].t \in Tenants
    BY <1>1, <1>2 DEF MemCreateTenant, Memory, CallType
  <2>2. call[c].arg \in Registry!Credentials
    BY <1>1, <2>1, InitialFacts DEF CallType
  <2> QED BY <1>1, <1>2, <2>1, <2>2 DEF MemCreateTenant, Created
<1>3. CASE MemUpdateTenant(c)
  <2>1. call[c].t \in Tenants /\ call[c].keep \in Registry!Credentials
    BY <1>1, <1>3 DEF MemUpdateTenant, CallType
  <2> QED BY <1>1, <1>3, <2>1 DEF MemUpdateTenant, Updated
<1>4. CASE MemDeleteTenant(c)
  BY <1>1, <1>4 DEF MemDeleteTenant, Exists, CallType
<1>5. CASE /\ MemoryOperation(c)
           /\ ~(MemCreateTenant(c) \/ MemUpdateTenant(c) \/ MemDeleteTenant(c))
  BY <1>1, <1>5 DEF MemoryOperation, MemSaveDiscovery, MemSaveMigration, MemSaveRecoveryPoint,
       MemSaveAuditEvent, MemCreateWorkspace, MemUpdateWorkspace, MemDeleteWorkspace,
       MemSaveWorkspaceJob
<1>6. CASE PostgresOperation(c)
  <2>0. backend = "postgres"
    BY <1>6, PostgresSteps
  <2>1. CASE ReadOnly
    BY <1>1, <2>1 DEF ReadOnly
  <2>2. CASE PgEnsureTenant(c)
    BY <1>1, <2>2 DEF PgEnsureTenant, Exists
  <2>3. CASE Inserts(c)
    BY <1>1, <2>3 DEF Inserts, PgSaveDiscoveryInsert, PgSaveMigrationUpsert,
       PgSaveRecoveryPointUpsert, PgSaveAuditEventInsert, PgCreateWorkspaceInsert,
       PgSaveWorkspaceJobUpsert, Write
  <2>4. CASE PgCreateTenantCommit(c)
    <3>1. call[c].op = "CreateTenant" /\ call[c].t \in Tenants
      BY <1>1, <2>4 DEF PgCreateTenantCommit, Statement, At, CallType
    <3>2. call[c].arg \in Registry!Credentials /\ Registry!validateWithinTenant(call[c].arg)
      BY <1>1, <3>1, InitialFacts DEF CallType
    <3>3. \/ tenants' = tenants
          \/ /\ NoHashConflict(call[c].t, call[c].arg)
             /\ tenants' = [tenants EXCEPT ![call[c].t] = call[c].arg]
      BY <2>4 DEF PgCreateTenantCommit
    <3>4. NoHashConflict(call[c].t, call[c].arg) =>
            Registry!validateCredentialUniqueness(tenants, call[c].t, call[c].arg)
      BY <1>1, <2>0, <3>1, <3>2, CommitIsValid
    <3> QED BY <1>1, <3>1, <3>2, <3>3, <3>4
  <2>5. CASE PgUpdateTenantCommit(c)
    <3>1. /\ call[c].t \in Tenants /\ call[c].keep \in Registry!Credentials
          /\ Registry!validateWithinTenant(call[c].keep)
      BY <1>1, <2>5 DEF PgUpdateTenantCommit, Statement, At, CallType
    <3>2. \/ tenants' = tenants
          \/ /\ NoHashConflict(call[c].t, call[c].keep)
             /\ tenants' = [tenants EXCEPT ![call[c].t] = call[c].keep]
      BY <2>5 DEF PgUpdateTenantCommit
    <3>3. NoHashConflict(call[c].t, call[c].keep) =>
            Registry!validateCredentialUniqueness(tenants, call[c].t, call[c].keep)
      BY <1>1, <2>0, <3>1, CommitIsValid
    <3> QED BY <1>1, <3>1, <3>2, <3>3
  <2>6. CASE PgDeleteTenantCommit(c)
    <3>1. call[c].t \in Tenants /\ call[c].t # DefaultTenant
          /\ tenants' = [tenants EXCEPT ![call[c].t] = None]
      BY <1>1, <2>6 DEF PgDeleteTenantCommit, Statement, At, CallType
    <3>2. tenants[call[c].t] = None => tenants' = tenants
      BY <1>0, <3>1 DEF STypeOK
    <3> QED BY <1>1, <3>1, <3>2
  <2>7. CASE PgDeleteWorkspaceCommit(c)
    BY <1>1, <2>7 DEF PgDeleteWorkspaceCommit
  <2> QED BY <1>6, <2>1, <2>2, <2>3, <2>4, <2>5, <2>6, <2>7, PostgresSteps DEF Commits
<1> QED BY <1>2, <1>3, <1>4, <1>5, <1>6

\* Every step keeps credentials unique.
LEMMA UniqueStep ==
  ASSUME StoreInv, StoreInv', UniqueInv, [Next]_vars
  PROVE  UniqueInv'
<1>1. CASE phase' # "open"
  BY <1>1 DEF UniqueInv
<1>2. CASE phase' = "open" /\ backend' = "postgres"
  <2>1. Unique'
    <3>1. \A t \in Tenants, o \in Owners : tenants'[t] # None /\ tenants'[t][o] # None =>
            registry'[tenants'[t][o]] = <<t, o>>
      BY <1>2 DEF StoreInv, RegisteredOK, ErasedOnlyWhenRegistered, Exists
    <3> QED BY <3>1 DEF Unique, Registry!Unique, Owners
  <2> QED BY <2>1 DEF UniqueInv
<1>3. CASE phase' = "open" /\ backend' = "memory"
  <2>0. STypeOK /\ CallsOK
    BY DEF StoreInv
  <2>1. CASE tenants' = tenants /\ phase = "open"
    BY <2>1 DEF UniqueInv, Unique, Registry!Unique
  <2>2. ASSUME NEW c \in Clients, MemoryOperation(c) \/ PostgresOperation(c)
        PROVE  UniqueInv'
    <3>1. Unique
      BY <2>2, TenantSteps DEF UniqueInv
    <3>2. Unique'
      <4>1. CASE tenants' = tenants
        BY <3>1, <4>1 DEF Unique, Registry!Unique
      <4> QED BY <2>0, <2>2, <3>1, <4>1, TenantSteps, UniqueWrite, UniqueLess, NoneFacts
    <3> QED BY <3>2 DEF UniqueInv
  <2>3. ASSUME NEW c \in Clients, Begin(c) \/ CreateServiceAccount(c) \/ RotateServiceAccountKey(c)
        PROVE  UniqueInv'
    BY <2>1, <2>3 DEF Begin, CreateServiceAccount, RotateServiceAccountKey, ReadTenant
  <2>4. CASE PgLoadTenants \/ PgSeedHashes \/ PgClearPlaintext
    BY <1>3, <2>4 DEF PgLoadTenants, PgSeedHashes, PgClearPlaintext, Opening
  <2>5. CASE Restart
    <3>1. tenants' = DefaultOnly
      BY <1>3, <2>5 DEF Restart
    <3>2. \A t \in Tenants, o \in Owners : tenants'[t] # None => tenants'[t][o] = None
      BY <3>1 DEF DefaultOnly, Registry!NoCredentials, Owners
    <3> QED BY <3>2 DEF UniqueInv, Unique, Registry!Unique, Owners
  <2>6. CASE UNCHANGED vars
    BY <1>3, <2>1, <2>6 DEF vars
  <2> QED BY <2>2, <2>3, <2>4, <2>5, <2>6 DEF Next
<1>4. backend' \in {"memory", "postgres"}
  BY StoreAssumption DEF StoreInv, STypeOK
<1> QED BY <1>1, <1>2, <1>3, <1>4

\* The operators of the abstract registry are those of the stores.
LEMMA SameOperators ==
  /\ Abstract!Credentials = Registry!Credentials
  /\ Abstract!NoCredentials = Registry!NoCredentials
  /\ \A all, t, cred : Abstract!validateCredentialUniqueness(all, t, cred)
                         <=> Registry!validateCredentialUniqueness(all, t, cred)
  /\ \A all : Abstract!Unique(all) <=> Registry!Unique(all)
<1>1. Abstract!Owners = Registry!Owners
  BY DEF Abstract!Owners, Registry!Owners
<1>2. /\ Abstract!Credentials = Registry!Credentials
      /\ Abstract!NoCredentials = Registry!NoCredentials
  BY <1>1 DEF Abstract!Credentials, Registry!Credentials, Abstract!NoCredentials,
              Registry!NoCredentials
<1>3. ASSUME NEW all, NEW t, NEW cred
      PROVE  Abstract!validateCredentialUniqueness(all, t, cred)
               <=> Registry!validateCredentialUniqueness(all, t, cred)
  BY <1>1 DEF Abstract!validateCredentialUniqueness, Registry!validateCredentialUniqueness,
       Abstract!validateWithinTenant, Registry!validateWithinTenant,
       Abstract!tenantCredentialHashes, Registry!tenantCredentialHashes
<1>4. ASSUME NEW all
      PROVE  Abstract!Unique(all) <=> Registry!Unique(all)
  BY <1>1 DEF Abstract!Unique, Registry!Unique
<1> QED BY <1>2, <1>3, <1>4

\* Both stores implement the registry of tenants, for every set of tenants,
\* accounts, digests and clients: their statements amount to atomic creates,
\* updates and deletes that keep every credential unique.
THEOREM StoresImplementRegistry == Spec => RegistryRefined
<1>1. Init => Abstract!RegistryInit /\ UniqueInv
  <2> SUFFICES ASSUME Init PROVE Abstract!RegistryInit /\ UniqueInv
    OBVIOUS
  <2>1. tenants \in [Tenants -> Registry!Credentials \cup {None}]
    BY NoneFacts DEF Init, DefaultOnly, LegacyTenants
  <2>2. UniqueInv
    <3>1. CASE phase = "open"
      <4>1. tenants = DefaultOnly
        BY <3>1 DEF Init
      <4>2. \A t \in Tenants, o \in Owners : tenants[t] # None => tenants[t][o] = None
        BY <4>1 DEF DefaultOnly, Registry!NoCredentials, Owners
      <4> QED BY <4>2 DEF UniqueInv, Unique, Registry!Unique, Owners
    <3> QED BY <3>1 DEF UniqueInv
  <2>3. /\ Visible \in [Tenants -> Registry!Credentials \cup {None}]
        /\ Registry!Unique(Visible)
    BY <2>1, <2>2 DEF Visible, UniqueInv, Unique, Registry!Unique
  <2> QED BY <2>2, <2>3, SameOperators DEF Abstract!RegistryInit
<1>2. StoreInv /\ StoreInv' /\ UniqueInv /\ UniqueInv' /\ [Next]_vars
        => [Abstract!RegistryNext]_Visible
  <2> SUFFICES ASSUME StoreInv, StoreInv', UniqueInv, UniqueInv', [Next]_vars
               PROVE  Abstract!RegistryNext \/ Visible' = Visible
    OBVIOUS
  <2>0. /\ phase = "open" => Visible = tenants
        /\ phase' = "open" => Visible' = tenants'
        /\ phase = "open" => Unique
        /\ phase' = "open" => Unique'
        /\ STypeOK /\ CallsOK
    BY DEF Visible, UniqueInv, StoreInv
  <2>1. CASE tenants' = tenants
    <3>1. Unique' <=> Unique
      BY <2>1 DEF Unique, Registry!Unique
    <3>2. Visible' = Visible
      BY <2>0, <2>1, <3>1 DEF Visible
    <3> QED BY <3>2
  <2>2. ASSUME NEW c \in Clients, MemoryOperation(c) \/ PostgresOperation(c)
        PROVE  Abstract!RegistryNext \/ Visible' = Visible
    <3>1. phase = "open" /\ phase' = "open"
      BY <2>2, TenantSteps
    <3>2. Visible = tenants /\ Visible' = tenants'
      BY <2>0, <3>1
    <3>3. ASSUME NEW t \in Tenants, NEW cred \in Registry!Credentials,
                 Registry!validateCredentialUniqueness(tenants, t, cred),
                 tenants' = [tenants EXCEPT ![t] = cred]
          PROVE  Abstract!RegistryNext
      <4>1. Abstract!CreateTenant(t, cred) \/ Abstract!UpdateTenant(t, cred)
        BY <3>2, <3>3, SameOperators DEF Abstract!CreateTenant, Abstract!UpdateTenant
      <4> QED BY <4>1, SameOperators DEF Abstract!RegistryNext
    <3>4. ASSUME NEW t \in Tenants, t # DefaultTenant, tenants[t] # None,
                 tenants' = [tenants EXCEPT ![t] = None]
          PROVE  Abstract!RegistryNext
      <4>1. Abstract!DeleteTenant(t)
        BY <3>2, <3>4 DEF Abstract!DeleteTenant
      <4> QED BY <4>1 DEF Abstract!RegistryNext
    <3>5. CASE /\ tenants[DefaultTenant] = None
               /\ tenants' = [tenants EXCEPT ![DefaultTenant] = Registry!NoCredentials]
      <4>1. Abstract!EnsureDefault
        BY <3>2, <3>5, SameOperators DEF Abstract!EnsureDefault
      <4> QED BY <4>1 DEF Abstract!RegistryNext
    <3> QED BY <2>1, <2>2, <3>3, <3>4, <3>5, TenantSteps
  <2>3. ASSUME NEW c \in Clients, Begin(c) \/ CreateServiceAccount(c) \/ RotateServiceAccountKey(c)
        PROVE  tenants' = tenants
    BY <2>3 DEF Begin, CreateServiceAccount, RotateServiceAccountKey, ReadTenant
  <2>4. CASE PgLoadTenants \/ PgSeedHashes \/ PgClearPlaintext
    BY <2>1, <2>4 DEF PgLoadTenants, PgSeedHashes, PgClearPlaintext
  <2>5. CASE Restart
    <3>1. CASE backend = "memory"
      <4>1. phase = "open" /\ phase' = "open" /\ tenants' = DefaultOnly
        BY <2>0, <2>5, <3>1 DEF Restart, CallsOK
      <4>2. Visible' = DefaultOnly
        BY <2>0, <4>1
      <4>3. Abstract!Forget
        BY <4>2, SameOperators DEF Abstract!Forget, DefaultOnly
      <4> QED BY <4>3 DEF Abstract!RegistryNext
    <3>2. CASE backend # "memory"
      BY <2>1, <2>5, <3>2 DEF Restart
    <3> QED BY <3>1, <3>2
  <2>6. CASE UNCHANGED vars
    BY <2>1, <2>6 DEF vars
  <2> QED BY <2>1, <2>2, <2>3, <2>4, <2>5, <2>6 DEF Next
<1>3. StoreInv /\ StoreInv' /\ UniqueInv /\ [Next]_vars => UniqueInv'
  BY UniqueStep
<1> QED BY <1>1, <1>2, <1>3, StoreInvHolds, PTL DEF Spec, RegistryRefined, Abstract!RegistrySpec

-----------------------------------------------------------------------------
\* Rows without an owner.

\* Tenant t exists, or was deleted under a save.
Owned(t) == Exists(t) \/ <<t>> \in raced

\* Workspace w of tenant t exists, or it or its tenant was deleted under a save.
Housed(t, w) == <<t, w>> \in workspaces \/ <<t>> \in raced \/ <<t, w>> \in raced

\* Rows have owners.
RowsOK ==
  /\ \A t \in Tenants : snapshots[t] > 0 \/ audit[t] > 0 => Owned(t)
  /\ \A r \in migrations : Owned(r[1])
  /\ \A r \in points : Owned(r[1])
  /\ \A r \in workspaces : Owned(r[1])
  /\ \A j \in jobs : Owned(j[1]) /\ Housed(j[1], j[2])

\* So has the row that a save under way is going to write.
SaveOK(c) ==
  call[c].op \in Saves /\ call[c].step # "ensure" =>
    /\ Owned(call[c].t)
    /\ call[c].op = "SaveWorkspaceJob" /\ call[c].step = "write" =>
         Housed(call[c].t, call[c].arg[1])

\* What a deletion of tenant t that has not committed will leave behind was
\* saved after its statements ran.
DeletionOK(c, t) ==
  Deleting(c, t) =>
    /\ \A r \in call[c].keep.workspaces : r[1] = t
    /\ <<t>> \notin raced =>
         /\ snapshots[t] = call[c].keep.snapshots /\ audit[t] = call[c].keep.audit
         /\ \A r \in migrations : r[1] = t => r \in call[c].keep.migrations
         /\ \A r \in points : r[1] = t => r \in call[c].keep.points
         /\ \A r \in workspaces : r[1] = t => r \in call[c].keep.workspaces
         /\ \A j \in jobs : j[1] = t => j \in call[c].keep.jobs

\* c is a DeleteWorkspace call of workspace w whose first statement has run.
Removing(c, t, w) ==
  /\ call[c].op = "DeleteWorkspace" /\ call[c].step = "commit"
  /\ call[c].t = t /\ call[c].arg = w

\* The same for the jobs of a workspace.
RemovalOK(c, t, w) ==
  Removing(c, t, w) =>
    \/ <<t>> \in raced \/ <<t, w>> \in raced
    \/ \A j \in jobs : j[1] = t /\ j[2] = w => j \in call[c].keep

UnderWayOK(c) ==
  /\ SaveOK(c)
  /\ \A t \in Tenants : DeletionOK(c, t)
  /\ \A t \in Tenants, w \in WorkspaceIDs : RemovalOK(c, t, w)

\* The memory store needs no excuse.
MemoryRows ==
  /\ \A t \in Tenants : snapshots[t] > 0 \/ audit[t] > 0 => Exists(t)
  /\ \A r \in migrations : Exists(r[1])
  /\ \A r \in points : Exists(r[1])
  /\ \A r \in workspaces : Exists(r[1])
  /\ \A j \in jobs : Exists(j[1]) /\ <<j[1], j[2]>> \in workspaces

StrayInv ==
  /\ backend = "memory" => MemoryRows
  /\ backend = "postgres" => RowsOK /\ \A c \in Clients : UnderWayOK(c)

\* The operations of the memory store leave no stray rows.
LEMMA MemoryStrays ==
  ASSUME StoreInv, StrayInv, NEW c \in Clients, MemoryOperation(c)
  PROVE  StrayInv'
<1>1. /\ CallType(call[c]) /\ backend = "memory" /\ backend' = "memory"
      /\ STypeOK /\ MemoryRows /\ call[c].t \in Tenants
  BY MemoryEnds DEF StoreInv, CallsOK, CallType, Idle, Busy, StrayInv
<1> SUFFICES MemoryRows'
  BY <1>1 DEF StrayInv
<1>2. CASE MemSaveDiscovery(c)
  BY <1>1, <1>2 DEF MemSaveDiscovery, InsertSnapshot, MemoryRows, Exists, STypeOK
<1>3. CASE MemSaveMigration(c)
  BY <1>1, <1>3 DEF MemSaveMigration, MemoryRows, Exists, RowKey
<1>4. CASE MemSaveRecoveryPoint(c)
  BY <1>1, <1>4 DEF MemSaveRecoveryPoint, MemoryRows, Exists, RowKey
<1>5. CASE MemSaveAuditEvent(c)
  BY <1>1, <1>5 DEF MemSaveAuditEvent, MemoryRows, Exists, STypeOK
<1>6. CASE MemCreateWorkspace(c)
  BY <1>1, <1>6 DEF MemCreateWorkspace, MemoryRows, Exists, RowKey
<1>7. CASE MemUpdateWorkspace(c)
  BY <1>1, <1>7 DEF MemUpdateWorkspace, MemoryRows, Exists, documents
<1>8. CASE MemDeleteWorkspace(c)
  BY <1>1, <1>8 DEF MemDeleteWorkspace, MemoryRows, Exists
<1>9. CASE MemSaveWorkspaceJob(c)
  <2>1. /\ UNCHANGED <<tenants, snapshots, migrations, points, workspaces, audit>>
        /\ \/ jobs' = jobs
           \/ /\ jobs' = jobs \cup {JobKey(c)} /\ Exists(call[c].t)
              /\ JobKey(c) \in jobs \/ WorkspaceOf(c) \in workspaces
    BY <1>9 DEF MemSaveWorkspaceJob
  <2>2. JobKey(c)[1] = call[c].t /\ <<JobKey(c)[1], JobKey(c)[2]>> = WorkspaceOf(c)
    BY DEF JobKey, WorkspaceOf
  <2> QED BY <1>1, <2>1, <2>2 DEF MemoryRows, Exists
<1>10. CASE MemCreateTenant(c) \/ MemUpdateTenant(c)
  <2>1. /\ UNCHANGED documents
        /\ \/ tenants' = tenants
           \/ \E cred \in Registry!Credentials : tenants' = [tenants EXCEPT ![call[c].t] = cred]
    <3>1. CASE MemCreateTenant(c)
      <4>1. call[c].op = "CreateTenant"
        BY <3>1 DEF MemCreateTenant, Memory
      <4>2. call[c].arg \in Registry!Credentials
        BY <1>1, <4>1, InitialFacts DEF CallType
      <4> QED BY <3>1, <4>2 DEF MemCreateTenant, Created
    <3>2. CASE MemUpdateTenant(c)
      BY <1>1, <3>2 DEF MemUpdateTenant, Updated, CallType
    <3> QED BY <1>10, <3>1, <3>2
  <2>2. \A t \in Tenants : Exists(t) => Exists(t)'
    BY <1>1, <2>1, NoneFacts DEF Exists, STypeOK
  <2>3. \A r \in migrations \cup points \cup workspaces \cup jobs : r[1] \in Tenants
    BY <1>1 DEF STypeOK
  <2> QED BY <1>1, <2>1, <2>2, <2>3 DEF MemoryRows, documents
<1>11. CASE MemDeleteTenant(c)
  <2> DEFINE t == call[c].t
  <2>1. \/ UNCHANGED <<tenants, documents>>
        \/ tenants' = [tenants EXCEPT ![t] = None] /\ RemoveRows(t, RowsOf(t))
    BY <1>11 DEF MemDeleteTenant
  <2>2. CASE UNCHANGED <<tenants, documents>>
    BY <1>1, <2>2 DEF MemoryRows, Exists, documents
  <2>3. CASE tenants' = [tenants EXCEPT ![t] = None] /\ RemoveRows(t, RowsOf(t))
    <3>1. /\ snapshots' = [snapshots EXCEPT ![t] = 0] /\ audit' = [audit EXCEPT ![t] = 0]
          /\ migrations' = {r \in migrations : r[1] # t} /\ points' = {r \in points : r[1] # t}
          /\ workspaces' = {r \in workspaces : r[1] # t} /\ jobs' = {j \in jobs : j[1] # t}
      <4> DEFINE rows == RowsOf(t)
      <4>1. /\ rows.snapshots = snapshots[t] /\ rows.audit = audit[t]
            /\ rows.migrations = {r \in migrations : r[1] = t}
            /\ rows.points = {r \in points : r[1] = t}
            /\ rows.workspaces = {r \in workspaces : r[1] = t}
            /\ rows.jobs = {j \in jobs : j[1] = t}
        BY DEF RowsOf
      <4>2. RemoveRows(t, rows) /\ t \in Tenants
        BY <1>1, <2>3
      <4> HIDE DEF t, rows
      <4>3. snapshots' = [snapshots EXCEPT ![t] = 0] /\ audit' = [audit EXCEPT ![t] = 0]
        <5>1. /\ snapshots' = [snapshots EXCEPT ![t] = snapshots[t] - rows.snapshots]
              /\ audit' = [audit EXCEPT ![t] = audit[t] - rows.audit]
          BY <4>2 DEF RemoveRows
        <5>2. snapshots[t] \in Nat /\ audit[t] \in Nat
          BY <1>1, <4>2 DEF STypeOK
        <5>3. snapshots[t] - rows.snapshots = 0 /\ audit[t] - rows.audit = 0
          BY <4>1, <5>2
        <5> QED BY <5>1, <5>3
      <4>4. /\ migrations' = migrations \ rows.migrations /\ points' = points \ rows.points
            /\ workspaces' = workspaces \ rows.workspaces /\ jobs' = jobs \ rows.jobs
        BY <4>2 DEF RemoveRows
      <4>5. /\ migrations' = {r \in migrations : r[1] # t} /\ points' = {r \in points : r[1] # t}
            /\ workspaces' = {r \in workspaces : r[1] # t} /\ jobs' = {j \in jobs : j[1] # t}
        BY <4>1, <4>4
      <4> QED BY <4>3, <4>5
    <3>2. \A u \in Tenants : u # t => (Exists(u)' <=> Exists(u))
      BY <1>1, <2>3 DEF Exists, STypeOK
    <3>3. \A r \in migrations \cup points \cup workspaces \cup jobs : r[1] \in Tenants
      BY <1>1 DEF STypeOK
    <3> HIDE DEF t
    <3>4. \A u \in Tenants : snapshots'[u] > 0 \/ audit'[u] > 0 => Exists(u)'
      BY <1>1, <3>1, <3>2 DEF MemoryRows, STypeOK
    <3>5. \A j \in jobs' : <<j[1], j[2]>> \in workspaces'
      <4>1. ASSUME NEW j \in jobs' PROVE <<j[1], j[2]>> \in workspaces'
        <5>1. j \in jobs /\ j[1] # t
          BY <3>1
        <5>2. <<j[1], j[2]>> \in workspaces
          BY <1>1, <5>1 DEF MemoryRows
        <5>3. <<j[1], j[2]>>[1] # t
          BY <5>1
        <5> QED BY <3>1, <5>2, <5>3
      <4> QED BY <4>1
    <3> QED BY <1>1, <3>1, <3>2, <3>3, <3>4, <3>5 DEF MemoryRows
  <2> QED BY <2>1, <2>2, <2>3
<1> QED BY <1>2, <1>3, <1>4, <1>5, <1>6, <1>7, <1>8, <1>9, <1>10, <1>11 DEF MemoryOperation

\* Rows keep their owners while tenants and rows only come.
LEMMA StayOwned ==
  ASSUME raced \subseteq raced', NEW T, \A t \in T : Exists(t) => Exists(t)',
         workspaces \subseteq workspaces'
  PROVE  /\ \A t \in T : Owned(t) => Owned(t)'
         /\ \A t, w : Housed(t, w) => Housed(t, w)'
BY DEF Owned, Housed

\* A step that writes no row: the calls of the other clients are as they were.
LEMMA QuietStep ==
  ASSUME StoreInv, StrayInv, backend = "postgres", UNCHANGED <<backend, documents, raced>>,
         \A t \in Tenants : Exists(t) => Exists(t)',
         NEW c \in Clients, \A d \in Clients \ {c} : call'[d] = call[d], UnderWayOK(c)'
  PROVE  StrayInv'
<1>1. RowsOK /\ (\A d \in Clients : UnderWayOK(d)) /\ STypeOK
  BY DEF StrayInv, StoreInv
<1>2. /\ \A t \in Tenants : Owned(t) => Owned(t)'
      /\ \A t, w : Housed(t, w) => Housed(t, w)'
  BY StayOwned DEF documents
<1>3. \A r \in migrations \cup points \cup workspaces \cup jobs : r[1] \in Tenants
  BY <1>1 DEF STypeOK
<1>4. RowsOK'
  BY <1>1, <1>2, <1>3 DEF RowsOK, documents
<1>5. ASSUME NEW d \in Clients \ {c} PROVE UnderWayOK(d)'
  <2>1. call'[d] = call[d] /\ UnderWayOK(d) /\ (call[d] = Idle \/ call[d].t \in Tenants)
    BY <1>1 DEF StoreInv, CallsOK, CallType
  <2>2. SaveOK(d)'
    <3>1. SaveOK(d) /\ (call[d].op \in Saves => call[d].t \in Tenants)
      BY <2>1 DEF UnderWayOK, Idle, Saves
    <3> QED BY <1>2, <2>1, <3>1 DEF SaveOK
  <2>3. ASSUME NEW t \in Tenants PROVE DeletionOK(d, t)'
    <3>1. DeletionOK(d, t)
      BY <2>1 DEF UnderWayOK
    <3> QED BY <2>1, <3>1 DEF DeletionOK, Deleting, documents
  <2>4. ASSUME NEW t \in Tenants, NEW w \in WorkspaceIDs PROVE RemovalOK(d, t, w)'
    <3>1. RemovalOK(d, t, w)
      BY <2>1 DEF UnderWayOK
    <3> QED BY <2>1, <3>1 DEF RemovalOK, Removing, documents
  <2> QED BY <2>2, <2>3, <2>4 DEF UnderWayOK
<1> QED BY <1>4, <1>5 DEF StrayInv

\* Saves and deletions under way are among those that history looks at.
LEMMA OverlapFacts ==
  ASSUME NEW c \in Clients
  PROVE  /\ \A t : Deleting(c, t) => <<t>> \in BeingDeleted
         /\ \A t, w : Removing(c, t, w) => <<t, w>> \in BeingDeleted
         /\ call[c].op \in Saves /\ call[c].step # "ensure" => <<call[c].t>> \in BeingSaved
         /\ call[c].op = "SaveWorkspaceJob" /\ call[c].step # "ensure" =>
              WorkspaceOf(c) \in BeingSaved
<1>1. ASSUME NEW t, Deleting(c, t) PROVE <<t>> \in BeingDeleted
  BY <1>1 DEF Deleting, BeingDeleted, At
<1>2. ASSUME NEW t, NEW w, Removing(c, t, w) PROVE <<t, w>> \in BeingDeleted
  BY <1>2 DEF Removing, BeingDeleted, At, RowKey
<1>3. ASSUME call[c].op \in Saves, call[c].step # "ensure" PROVE KeysOf(c) \subseteq BeingSaved
  BY <1>3 DEF BeingSaved
<1>4. <<call[c].t>> \in KeysOf(c)
  BY DEF KeysOf
<1>5. call[c].op = "SaveWorkspaceJob" => WorkspaceOf(c) \in KeysOf(c) /\ call[c].op \in Saves
  BY DEF KeysOf, Saves
<1> QED BY <1>1, <1>2, <1>3, <1>4, <1>5

\* What the statements that insert a row have in common.
LEMMA InsertFacts ==
  ASSUME STypeOK, CallsOK, NEW c \in Clients, Inserts(c)
  PROVE  /\ call[c].op \in Saves /\ call[c].step # "ensure" /\ Return(c)
         /\ call[c].t \in Tenants
         /\ raced' = raced \cup (KeysOf(c) \cap BeingDeleted)
         /\ UNCHANGED <<backend, tenants>>
         /\ \A u \in Tenants \ {call[c].t} : snapshots'[u] = snapshots[u] /\ audit'[u] = audit[u]
         /\ migrations' \subseteq migrations \cup {RowKey(c)}
         /\ points' \subseteq points \cup {RowKey(c)}
         /\ workspaces' \subseteq workspaces \cup {RowKey(c)} /\ workspaces \subseteq workspaces'
         /\ \/ jobs' = jobs
            \/ /\ jobs' = jobs \cup {JobKey(c)}
               /\ call[c].op = "SaveWorkspaceJob" /\ call[c].step = "write"
<1>1. call[c].op # "none" => call[c].t \in Tenants
  BY DEF CallsOK, CallType, Idle
<1>2. CASE PgSaveDiscoveryInsert(c)
  BY <1>1, <1>2 DEF PgSaveDiscoveryInsert, InsertSnapshot, Statement, At, Write, StoreRest, Saves, STypeOK
<1>3. CASE PgSaveMigrationUpsert(c)
  BY <1>1, <1>3 DEF PgSaveMigrationUpsert, Statement, At, Write, StoreRest, Saves, STypeOK
<1>4. CASE PgSaveRecoveryPointUpsert(c)
  BY <1>1, <1>4 DEF PgSaveRecoveryPointUpsert, Statement, At, Write, StoreRest, Saves, STypeOK
<1>5. CASE PgSaveAuditEventInsert(c)
  BY <1>1, <1>5 DEF PgSaveAuditEventInsert, Statement, At, Write, StoreRest, Saves, STypeOK
<1>6. CASE PgCreateWorkspaceInsert(c)
  BY <1>1, <1>6 DEF PgCreateWorkspaceInsert, Statement, At, Write, StoreRest, Saves, STypeOK
<1>7. CASE PgSaveWorkspaceJobUpsert(c)
  BY <1>1, <1>7 DEF PgSaveWorkspaceJobUpsert, Statement, At, Write, StoreRest, Saves, STypeOK
<1> QED BY <1>2, <1>3, <1>4, <1>5, <1>6, <1>7 DEF Inserts

\* An insert finds the owner it was checked for, or the deletion is on record.
LEMMA InsertStrays ==
  ASSUME StoreInv, StrayInv, backend = "postgres", NEW c \in Clients, Inserts(c)
  PROVE  StrayInv'
<1> DEFINE t == call[c].t
<1>1. /\ RowsOK /\ (\A d \in Clients : UnderWayOK(d)) /\ STypeOK /\ CallsOK
  BY DEF StrayInv, StoreInv
<1>2. /\ call[c].op \in Saves /\ call[c].step # "ensure" /\ Return(c) /\ t \in Tenants
      /\ raced' = raced \cup (KeysOf(c) \cap BeingDeleted) /\ UNCHANGED <<backend, tenants>>
      /\ \A u \in Tenants \ {t} : snapshots'[u] = snapshots[u] /\ audit'[u] = audit[u]
      /\ migrations' \subseteq migrations \cup {RowKey(c)}
      /\ points' \subseteq points \cup {RowKey(c)}
      /\ workspaces' \subseteq workspaces \cup {RowKey(c)} /\ workspaces \subseteq workspaces'
      /\ \/ jobs' = jobs
         \/ /\ jobs' = jobs \cup {JobKey(c)}
            /\ call[c].op = "SaveWorkspaceJob" /\ call[c].step = "write"
  BY <1>1, InsertFacts
<1>3. /\ call'[c] = Idle /\ \A d \in Clients \ {c} : call'[d] = call[d]
  BY <1>1, <1>2, CallEffects
<1>4. /\ RowKey(c)[1] = t /\ JobKey(c)[1] = t /\ JobKey(c)[2] = call[c].arg[1]
      /\ <<t>> \in KeysOf(c)
      /\ call[c].op = "SaveWorkspaceJob" => <<t, call[c].arg[1]>> \in KeysOf(c)
  BY DEF RowKey, JobKey, KeysOf, WorkspaceOf
<1>5. /\ \A u \in Tenants : Owned(u) => Owned(u)'
      /\ \A u, w : Housed(u, w) => Housed(u, w)'
  <2>1. /\ raced \subseteq raced' /\ workspaces \subseteq workspaces'
        /\ \A u \in Tenants : Exists(u) => Exists(u)'
    BY <1>2 DEF Exists
  <2> QED BY <2>1, StayOwned
<1>6. SaveOK(c)
  BY <1>1 DEF UnderWayOK
<1>7. Owned(t) /\ (call[c].op = "SaveWorkspaceJob" /\ call[c].step = "write" => Housed(t, call[c].arg[1]))
  BY <1>2, <1>6 DEF SaveOK
<1>8. \A r \in migrations \cup points \cup workspaces \cup jobs : r[1] \in Tenants
  BY <1>1 DEF STypeOK
<1> HIDE DEF t
<1>9. RowsOK'
  <2>1. ASSUME NEW u \in Tenants, snapshots'[u] > 0 \/ audit'[u] > 0 PROVE Owned(u)'
    BY <1>1, <1>2, <1>5, <1>7, <2>1 DEF RowsOK
  <2>2. ASSUME NEW r \in migrations' \cup points' \cup workspaces' PROVE Owned(r[1])'
    <3>1. CASE r = RowKey(c)
      BY <1>2, <1>4, <1>5, <1>7, <3>1
    <3>2. CASE r \in migrations \cup points \cup workspaces
      BY <1>1, <1>5, <1>8, <3>2 DEF RowsOK
    <3> QED BY <1>2, <2>2, <3>1, <3>2
  <2>3. ASSUME NEW j \in jobs' PROVE Owned(j[1])' /\ Housed(j[1], j[2])'
    <3>1. CASE j \in jobs
      BY <1>1, <1>5, <1>8, <3>1 DEF RowsOK
    <3>2. CASE j \notin jobs
      <4>1. j = JobKey(c) /\ call[c].op = "SaveWorkspaceJob" /\ call[c].step = "write"
        BY <1>2, <2>3, <3>2
      <4> QED BY <1>2, <1>4, <1>5, <1>7, <4>1
    <3> QED BY <3>1, <3>2
  <2> QED BY <2>1, <2>2, <2>3 DEF RowsOK
<1>10. ASSUME NEW d \in Clients PROVE UnderWayOK(d)'
  <2>1. CASE d = c
    BY <1>3, <2>1 DEF UnderWayOK, SaveOK, DeletionOK, RemovalOK, Deleting, Removing, Idle, Saves
  <2>2. CASE d # c
    <3>1. call'[d] = call[d] /\ UnderWayOK(d) /\ (call[d] = Idle \/ call[d].t \in Tenants)
      BY <1>1, <1>3, <2>2 DEF CallsOK, CallType
    <3>2. SaveOK(d)'
      <4>1. SaveOK(d) /\ (call[d].op \in Saves => call[d].t \in Tenants)
        BY <3>1 DEF UnderWayOK, Idle, Saves
      <4> QED BY <1>5, <3>1, <4>1 DEF SaveOK
    <3>3. ASSUME NEW u \in Tenants PROVE DeletionOK(d, u)'
      <4>1. DeletionOK(d, u)
        BY <3>1 DEF UnderWayOK
      <4>2. CASE u = t /\ Deleting(d, u)
        <5>1. <<u>> \in raced'
          BY <1>2, <1>4, <4>2, OverlapFacts
        <5> QED BY <3>1, <4>1, <4>2, <5>1 DEF DeletionOK, Deleting
      <4>3. CASE u # t
        <5>1. /\ snapshots'[u] = snapshots[u] /\ audit'[u] = audit[u]
              /\ \A r \in migrations' : r[1] = u => r \in migrations
              /\ \A r \in points' : r[1] = u => r \in points
              /\ \A r \in workspaces' : r[1] = u => r \in workspaces
              /\ \A j \in jobs' : j[1] = u => j \in jobs
              /\ raced \subseteq raced'
          BY <1>2, <1>4, <4>3
        <5> QED BY <3>1, <4>1, <5>1 DEF DeletionOK, Deleting
      <4> QED BY <3>1, <4>2, <4>3 DEF DeletionOK, Deleting
    <3>4. ASSUME NEW u \in Tenants, NEW w \in WorkspaceIDs PROVE RemovalOK(d, u, w)'
      <4>1. RemovalOK(d, u, w) /\ raced \subseteq raced'
        BY <1>2, <3>1 DEF UnderWayOK
      <4>2. CASE Removing(d, u, w) /\ \E j \in jobs' \ jobs : j[1] = u /\ j[2] = w
        <5>1. /\ call[c].op = "SaveWorkspaceJob" /\ u = t /\ w = call[c].arg[1]
          BY <1>2, <1>4, <4>2
        <5>2. <<u, w>> \in raced'
          BY <1>2, <1>4, <4>2, <5>1, OverlapFacts
        <5> QED BY <5>2 DEF RemovalOK
      <4>3. CASE ~(\E j \in jobs' \ jobs : j[1] = u /\ j[2] = w)
        BY <3>1, <4>1, <4>3 DEF RemovalOK, Removing
      <4> QED BY <3>1, <4>2, <4>3 DEF RemovalOK, Removing
    <3> QED BY <3>2, <3>3, <3>4 DEF UnderWayOK
  <2> QED BY <2>1, <2>2
<1> QED BY <1>2, <1>9, <1>10 DEF StrayInv

\* The end of a call leaves nothing to prove about it.
LEMMA EndedUnderWay ==
  ASSUME NEW c \in Clients, call'[c] = Idle
  PROVE  UnderWayOK(c)'
BY DEF UnderWayOK, SaveOK, DeletionOK, RemovalOK, Deleting, Removing, Idle, Saves

\* ensureTenant lets a save go on only when its tenant is there.
LEMMA EnsureStrays ==
  ASSUME StoreInv, StrayInv, NEW c \in Clients, PgEnsureTenant(c), Ends(c) \/ Moves(c)
  PROVE  StrayInv'
<1> DEFINE t == call[c].t
<1>1. /\ STypeOK /\ CallsOK /\ Busy(c) /\ call[c].op \in Saves /\ backend = "postgres"
      /\ UNCHANGED <<backend, documents, raced>>
  BY DEF StoreInv, PgEnsureTenant, Statement, At, StoreRest, Busy, Saves
<1>2. t \in Tenants
  BY <1>1 DEF CallsOK, CallType, Idle, Busy
<1>3. tenants' = tenants \/ tenants' = [tenants EXCEPT ![t] = Registry!NoCredentials]
  BY DEF PgEnsureTenant
<1>4. \A u \in Tenants : Exists(u) => Exists(u)'
  BY <1>1, <1>2, <1>3, NoneFacts DEF Exists, STypeOK
<1>5. IF tenants'[t] = None THEN Return(c) ELSE Goto(c, "check")
  BY DEF PgEnsureTenant
<1>6. CASE Return(c)
  <2>1. call'[c] = Idle /\ \A d \in Clients \ {c} : call'[d] = call[d]
    BY <1>1, <1>6, CallEffects
  <2>2. UnderWayOK(c)'
    BY <2>1, EndedUnderWay
  <2> QED BY <1>1, <1>4, <2>1, <2>2, QuietStep
<1>7. CASE Goto(c, "check") /\ tenants'[t] # None
  <2>1. /\ call'[c] = [op |-> call[c].op, t |-> t, arg |-> call[c].arg,
                       step |-> "check", keep |-> call[c].keep]
        /\ \A d \in Clients \ {c} : call'[d] = call[d]
    BY <1>1, <1>7, CallEffects
  <2>2. UnderWayOK(c)'
    BY <1>1, <1>7, <2>1 DEF UnderWayOK, SaveOK, Owned, Exists, DeletionOK, RemovalOK, Deleting, Removing, Saves
  <2> QED BY <1>1, <1>4, <2>1, <2>2, QuietStep
<1> QED BY <1>5, <1>6, <1>7

\* A statement that reads passes a job on only when the workspace is there.
LEMMA ReadStrays ==
  ASSUME StoreInv, StrayInv, NEW c \in Clients, Reads(c), Ends(c) \/ Moves(c), ReadOnly,
         Busy(c), backend = "postgres", UNCHANGED backend
  PROVE  StrayInv'
<1>1. /\ STypeOK /\ CallsOK /\ UnderWayOK(c) /\ RowsOK /\ UNCHANGED <<backend, documents, raced>>
      /\ \A t \in Tenants : Exists(t) => Exists(t)'
  BY DEF StoreInv, StrayInv, ReadOnly, history, Exists
<1>2. CASE Return(c)
  <2>1. call'[c] = Idle /\ \A d \in Clients \ {c} : call'[d] = call[d]
    BY <1>1, <1>2, CallEffects
  <2>2. UnderWayOK(c)'
    BY <2>1, EndedUnderWay
  <2> QED BY <1>1, <2>1, <2>2, QuietStep
<1>3. ASSUME NEW s, Goto(c, s), call[c].step # "ensure",
             call[c].op \notin {"DeleteTenant", "DeleteWorkspace"},
             call[c].op = "SaveWorkspaceJob" /\ s = "write" => Housed(call[c].t, call[c].arg[1])
      PROVE  StrayInv'
  <2>1. /\ call'[c] = [op |-> call[c].op, t |-> call[c].t, arg |-> call[c].arg,
                       step |-> s, keep |-> call[c].keep]
        /\ \A d \in Clients \ {c} : call'[d] = call[d]
    BY <1>1, <1>3, CallEffects
  <2>2. UnderWayOK(c)'
    <3>1. call[c].op \in Saves => Owned(call[c].t)
      BY <1>1, <1>3 DEF UnderWayOK, SaveOK
    <3>2. /\ \A u : Owned(u) => Owned(u)'
          /\ \A u, w : Housed(u, w) => Housed(u, w)'
      BY <1>1 DEF Owned, Housed, Exists, documents, ReadOnly
    <3>3. /\ call'[c].op = call[c].op /\ call'[c].t = call[c].t /\ call'[c].arg = call[c].arg
          /\ call'[c].step = s
      BY <2>1
    <3>4. SaveOK(c)'
      BY <1>3, <3>1, <3>2, <3>3 DEF SaveOK
    <3> QED BY <1>3, <3>3, <3>4 DEF UnderWayOK, DeletionOK, RemovalOK, Deleting, Removing
  <2> QED BY <1>1, <2>1, <2>2, QuietStep
<1>4. CASE PgSaveWorkspaceJobRead(c)
  <2>1. /\ call[c].op = "SaveWorkspaceJob" /\ call[c].step = "check"
        /\ Goto(c, IF JobKey(c) \in jobs THEN "write" ELSE "workspace")
    BY <1>4 DEF PgSaveWorkspaceJobRead, Statement, At
  <2>2. JobKey(c) \in jobs => Housed(call[c].t, call[c].arg[1])
    <3>1. JobKey(c)[1] = call[c].t /\ JobKey(c)[2] = call[c].arg[1]
      BY DEF JobKey
    <3> QED BY <1>1, <3>1 DEF RowsOK
  <2> QED BY <1>3, <2>1, <2>2
<1>5. CASE PgSaveWorkspaceJobWorkspace(c)
  <2>1. /\ call[c].op = "SaveWorkspaceJob" /\ call[c].step = "workspace"
        /\ IF WorkspaceOf(c) \in workspaces THEN Goto(c, "write") ELSE Return(c)
    BY <1>5 DEF PgSaveWorkspaceJobWorkspace, Statement, At
  <2>2. WorkspaceOf(c) \in workspaces => Housed(call[c].t, call[c].arg[1])
    BY DEF WorkspaceOf, Housed
  <2> QED BY <1>2, <1>3, <2>1, <2>2
<1>6. CASE PgSaveDiscoveryCount(c)
  <2>1. /\ call[c].op = "SaveDiscovery" /\ call[c].step = "check"
        /\ Return(c) \/ Goto(c, "write")
    BY <1>6 DEF PgSaveDiscoveryCount, Statement, At
  <2> QED BY <1>2, <1>3, <2>1
<1>7. CASE PgSaveMigrationExists(c) \/ PgSaveMigrationCount(c)
  <2>1. /\ call[c].op = "SaveMigration" /\ call[c].step \in {"check", "count"}
        /\ Return(c) \/ Goto(c, "write") \/ Goto(c, "count")
    BY <1>7 DEF PgSaveMigrationExists, PgSaveMigrationCount, Statement, At
  <2> QED BY <1>2, <1>3, <2>1
<1>8. CASE PgUpdateWorkspaceRead(c)
  <2>1. /\ call[c].op = "UpdateWorkspace" /\ call[c].step = "check"
        /\ Return(c) \/ Goto(c, "write")
    BY <1>8 DEF PgUpdateWorkspaceRead, Statement, At
  <2> QED BY <1>2, <1>3, <2>1
<1>9. CASE PgUpdateWorkspaceWrite(c) \/ PgStatementFails(c)
  BY <1>2, <1>9 DEF PgUpdateWorkspaceWrite, PgStatementFails
<1> QED BY <1>4, <1>5, <1>6, <1>7, <1>8, <1>9 DEF Reads

\* The deletes of a transaction see every row that is there.
LEMMA DeleteStatementStrays ==
  ASSUME StoreInv, StrayInv, NEW c \in Clients, ReadOnly, Busy(c),
         backend = "postgres", UNCHANGED backend,
         PgDeleteTenantRows(c) \/ PgDeleteWorkspaceJobs(c)
  PROVE  StrayInv'
<1>1. /\ STypeOK /\ CallsOK /\ UNCHANGED <<backend, documents, raced>>
      /\ \A t \in Tenants : Exists(t) => Exists(t)'
  BY DEF StoreInv, ReadOnly, history, Exists
<1>2. /\ call = [d \in Clients |-> call[d]]
      /\ call[c] = [op |-> call[c].op, t |-> call[c].t, arg |-> call[c].arg,
                    step |-> call[c].step, keep |-> call[c].keep]
  BY <1>1, CallShape
<1>3. CASE Return(c)
  <2>1. call'[c] = Idle /\ \A d \in Clients \ {c} : call'[d] = call[d]
    BY <1>1, <1>3, CallEffects
  <2>2. UnderWayOK(c)'
    BY <2>1, EndedUnderWay
  <2> QED BY <1>1, <2>1, <2>2, QuietStep
<1>4. CASE PgDeleteTenantRows(c) /\ ~Return(c)
  <2> DEFINE rows == RowsOf(call[c].t)
  <2>1. /\ call[c].op = "DeleteTenant"
        /\ call' = [call EXCEPT ![c].step = "commit", ![c].keep = rows]
    BY <1>4 DEF PgDeleteTenantRows, Statement, At
  <2>2. /\ rows.snapshots = snapshots[call[c].t] /\ rows.audit = audit[call[c].t]
        /\ rows.migrations = {r \in migrations : r[1] = call[c].t}
        /\ rows.points = {r \in points : r[1] = call[c].t}
        /\ rows.workspaces = {r \in workspaces : r[1] = call[c].t}
        /\ rows.jobs = {j \in jobs : j[1] = call[c].t}
    BY DEF RowsOf
  <2> HIDE DEF rows
  <2>3. /\ call'[c] = [op |-> call[c].op, t |-> call[c].t, arg |-> call[c].arg,
                       step |-> "commit", keep |-> rows]
        /\ \A d \in Clients \ {c} : call'[d] = call[d]
    BY <1>2, <2>1
  <2>4. /\ call'[c].op = "DeleteTenant" /\ call'[c].t = call[c].t /\ call'[c].keep = rows
    BY <2>1, <2>3
  <2>5. ASSUME NEW t \in Tenants PROVE DeletionOK(c, t)'
    BY <1>1, <2>2, <2>4 DEF DeletionOK, Deleting, documents
  <2>6. UnderWayOK(c)'
    BY <2>4, <2>5 DEF UnderWayOK, SaveOK, Saves, RemovalOK, Removing
  <2> QED BY <1>1, <2>3, <2>6, QuietStep
<1>5. CASE PgDeleteWorkspaceJobs(c)
  <2> DEFINE keep == {j \in jobs : <<j[1], j[2]>> = RowKey(c)}
  <2>1. /\ call[c].op = "DeleteWorkspace"
        /\ call' = [call EXCEPT ![c].step = "commit", ![c].keep = keep]
    BY <1>5 DEF PgDeleteWorkspaceJobs, Statement, At
  <2>2. \A j \in jobs : j[1] = call[c].t /\ j[2] = call[c].arg => j \in keep
    BY DEF RowKey
  <2> HIDE DEF keep
  <2>3. /\ call'[c] = [op |-> call[c].op, t |-> call[c].t, arg |-> call[c].arg,
                       step |-> "commit", keep |-> keep]
        /\ \A d \in Clients \ {c} : call'[d] = call[d]
    BY <1>2, <2>1
  <2>4. /\ call'[c].op = "DeleteWorkspace" /\ call'[c].t = call[c].t
        /\ call'[c].arg = call[c].arg /\ call'[c].keep = keep
    BY <2>1, <2>3
  <2>5. UnderWayOK(c)'
    BY <1>1, <2>2, <2>4 DEF UnderWayOK, SaveOK, Saves, DeletionOK, Deleting, RemovalOK, Removing, documents
  <2> QED BY <1>1, <2>3, <2>5, QuietStep
<1> QED BY <1>3, <1>4, <1>5

\* Creating or updating a tenant takes no owner away.
LEMMA WriteTenantStrays ==
  ASSUME StoreInv, StrayInv, NEW c \in Clients, Busy(c), backend = "postgres",
         UNCHANGED backend, Ends(c), PgCreateTenantCommit(c) \/ PgUpdateTenantCommit(c)
  PROVE  StrayInv'
<1>1. STypeOK /\ CallsOK /\ CallType(call[c]) /\ UNCHANGED <<backend, documents, raced>>
  BY DEF StoreInv, CallsOK, Idle, Busy, PgCreateTenantCommit, PgUpdateTenantCommit
<1>2. tenants' = tenants \/ \E cred \in Registry!Credentials :
                              tenants' = [tenants EXCEPT ![call[c].t] = cred]
  <2>1. CASE PgCreateTenantCommit(c)
    <3>1. /\ call[c].op = "CreateTenant"
          /\ tenants' = tenants \/ tenants' = [tenants EXCEPT ![call[c].t] = call[c].arg]
      BY <2>1 DEF PgCreateTenantCommit, Statement, At
    <3>2. call[c].arg \in Registry!Credentials
      BY <1>1, <3>1, InitialFacts DEF CallType
    <3> QED BY <3>1, <3>2
  <2>2. CASE PgUpdateTenantCommit(c)
    <3>1. /\ call[c].op \in Handlers /\ call[c].step = "commit"
          /\ tenants' = tenants \/ tenants' = [tenants EXCEPT ![call[c].t] = call[c].keep]
      BY <2>2 DEF PgUpdateTenantCommit, Statement, At
    <3> QED BY <1>1, <3>1 DEF CallType
  <2> QED BY <2>1, <2>2
<1>3. \A t \in Tenants : Exists(t) => Exists(t)'
  BY <1>1, <1>2, NoneFacts DEF Exists, STypeOK
<1>4. call'[c] = Idle /\ \A d \in Clients \ {c} : call'[d] = call[d]
  BY <1>1, CallEffects DEF Ends
<1>5. UnderWayOK(c)'
  BY <1>4, EndedUnderWay
<1> QED BY <1>1, <1>3, <1>4, <1>5, QuietStep

\* A deletion takes an owner away from the saves that are on record and from no
\* one else.
LEMMA DeleteTenantStrays ==
  ASSUME StoreInv, StrayInv, NEW c \in Clients, Busy(c), backend = "postgres",
         UNCHANGED backend, Ends(c), PgDeleteTenantCommit(c)
  PROVE  StrayInv'
<1> PICK t, keep : t = call[c].t /\ keep = call[c].keep
  OBVIOUS
<1>1. /\ RowsOK /\ (\A d \in Clients : UnderWayOK(d)) /\ STypeOK /\ CallsOK /\ DeletesOK
      /\ t \in Tenants
  BY DEF StrayInv, StoreInv, CallsOK, CallType, Idle, Busy
<1>2. /\ Deleting(c, t) /\ RemoveRows(t, keep) /\ tenants' = [tenants EXCEPT ![t] = None]
      /\ raced' = raced \cup ({<<t>>} \cap BeingSaved)
  BY DEF PgDeleteTenantCommit, Deleting, Statement, At
<1>3. call'[c] = Idle /\ \A d \in Clients \ {c} : call'[d] = call[d]
  BY <1>1, CallEffects DEF Ends
<1>4. DeletionOK(c, t) /\ keep.snapshots \in 0..snapshots[t] /\ keep.audit \in 0..audit[t]
  BY <1>1, <1>2 DEF UnderWayOK, DeletesOK
<1>5. /\ migrations' = migrations \ keep.migrations /\ points' = points \ keep.points
      /\ workspaces' = workspaces \ keep.workspaces /\ jobs' = jobs \ keep.jobs
      /\ snapshots' = [snapshots EXCEPT ![t] = snapshots[t] - keep.snapshots]
      /\ audit' = [audit EXCEPT ![t] = audit[t] - keep.audit]
  BY <1>2 DEF RemoveRows
<1>6. \A r \in migrations \cup points \cup workspaces \cup jobs : r[1] \in Tenants
  BY <1>1 DEF STypeOK
<1>7. \A d \in Clients, u \in Tenants : d # c /\ Deleting(d, u) => u # t
  BY <1>1, <1>2 DEF DeletesOK
<1>8. /\ \A r \in keep.workspaces : r[1] = t
      /\ <<t>> \notin raced =>
           /\ snapshots[t] = keep.snapshots /\ audit[t] = keep.audit
           /\ \A r \in migrations : r[1] = t => r \in keep.migrations
           /\ \A r \in points : r[1] = t => r \in keep.points
           /\ \A r \in workspaces : r[1] = t => r \in keep.workspaces
           /\ \A j \in jobs : j[1] = t => j \in keep.jobs
  BY <1>2, <1>4 DEF DeletionOK
<1>9. /\ \A u \in Tenants \ {t} : snapshots'[u] = snapshots[u] /\ audit'[u] = audit[u]
      /\ <<t>> \notin raced => snapshots'[t] = 0 /\ audit'[t] = 0
  <2>1. \A u \in Tenants \ {t} : snapshots'[u] = snapshots[u] /\ audit'[u] = audit[u]
    BY <1>1, <1>5 DEF STypeOK
  <2>2. snapshots'[t] = snapshots[t] - keep.snapshots /\ audit'[t] = audit[t] - keep.audit
    BY <1>1, <1>5 DEF STypeOK
  <2>3. snapshots[t] \in Nat /\ audit[t] \in Nat
    BY <1>1 DEF STypeOK
  <2> QED BY <1>8, <2>1, <2>2, <2>3
<1>10. raced \subseteq raced' /\ \A u \in Tenants \ {t} : Exists(u)' <=> Exists(u)
  BY <1>1, <1>2 DEF Exists, STypeOK
<1>11. /\ \A u \in Tenants \ {t} : Owned(u) => Owned(u)'
       /\ \A u \in Tenants \ {t} : \A w : Housed(u, w) => Housed(u, w)'
       /\ <<t>> \in raced' => Owned(t)' /\ \A w : Housed(t, w)'
  <2>1. \A u \in Tenants \ {t} : Owned(u) => Owned(u)'
    BY <1>10 DEF Owned
  <2>2. ASSUME NEW u \in Tenants \ {t}, NEW w, <<u, w>> \in workspaces
        PROVE  <<u, w>> \in workspaces'
    <3>1. <<u, w>>[1] # t
      OBVIOUS
    <3> QED BY <1>5, <1>8, <2>2, <3>1
  <2> QED BY <1>10, <2>1, <2>2 DEF Owned, Housed
<1>12. RowsOK'
  <2>1. ASSUME NEW u \in Tenants, snapshots'[u] > 0 \/ audit'[u] > 0 PROVE Owned(u)'
    <3>1. CASE u = t
      BY <1>9, <1>10, <1>11, <2>1, <3>1
    <3>2. CASE u # t
      BY <1>1, <1>9, <1>11, <2>1, <3>2 DEF RowsOK
    <3> QED BY <3>1, <3>2
  <2>2. ASSUME NEW r \in migrations' \cup points' \cup workspaces' PROVE Owned(r[1])'
    <3>1. r \in migrations \cup points \cup workspaces /\ r[1] \in Tenants
      BY <1>5, <1>6
    <3>2. CASE r[1] = t
      <4>1. <<t>> \in raced
        BY <1>5, <1>8, <2>2, <3>2
      <4> QED BY <1>10, <1>11, <3>2, <4>1
    <3>3. CASE r[1] # t
      <4>1. Owned(r[1])
        BY <1>1, <3>1 DEF RowsOK
      <4> QED BY <1>11, <3>1, <3>3, <4>1
    <3> QED BY <3>2, <3>3
  <2>3. ASSUME NEW j \in jobs' PROVE Owned(j[1])' /\ Housed(j[1], j[2])'
    <3>1. j \in jobs /\ j[1] \in Tenants
      BY <1>5, <1>6
    <3>2. CASE j[1] = t
      <4>1. <<t>> \in raced
        BY <1>5, <1>8, <2>3, <3>2
      <4> QED BY <1>10, <1>11, <3>2, <4>1
    <3>3. CASE j[1] # t
      <4>1. Owned(j[1]) /\ Housed(j[1], j[2])
        BY <1>1, <3>1 DEF RowsOK
      <4> QED BY <1>11, <3>1, <3>3, <4>1
    <3> QED BY <3>2, <3>3
  <2> QED BY <2>1, <2>2, <2>3 DEF RowsOK
<1>13. ASSUME NEW d \in Clients \ {c} PROVE UnderWayOK(d)'
  <2>1. /\ call'[d] = call[d] /\ UnderWayOK(d)
        /\ call[d].op \in Saves => call[d].t \in Tenants
    BY <1>1, <1>3 DEF CallsOK, CallType, Idle, Saves
  <2>2. SaveOK(d)'
    <3>1. SaveOK(d)
      BY <2>1 DEF UnderWayOK
    <3>2. CASE call[d].op \in Saves /\ call[d].step # "ensure" /\ call[d].t = t
      <4>1. <<t>> \in raced'
        BY <1>2, <3>2, OverlapFacts
      <4> QED BY <1>11, <2>1, <3>2, <4>1 DEF SaveOK
    <3>3. CASE call[d].op \in Saves /\ call[d].step # "ensure" /\ call[d].t # t
      BY <1>11, <2>1, <3>1, <3>3 DEF SaveOK
    <3> QED BY <2>1, <3>2, <3>3 DEF SaveOK
  <2>3. ASSUME NEW u \in Tenants PROVE DeletionOK(d, u)'
    <3>1. DeletionOK(d, u) /\ (Deleting(d, u) => u # t)
      BY <1>7, <2>1 DEF UnderWayOK
    <3>2. /\ migrations' \subseteq migrations /\ points' \subseteq points
          /\ workspaces' \subseteq workspaces /\ jobs' \subseteq jobs
      BY <1>5
    <3> QED BY <1>9, <1>10, <2>1, <3>1, <3>2 DEF DeletionOK, Deleting
  <2>4. ASSUME NEW u \in Tenants, NEW w \in WorkspaceIDs PROVE RemovalOK(d, u, w)'
    <3>1. RemovalOK(d, u, w) /\ jobs' \subseteq jobs
      BY <1>5, <2>1 DEF UnderWayOK
    <3> QED BY <1>10, <2>1, <3>1 DEF RemovalOK, Removing
  <2> QED BY <2>2, <2>3, <2>4 DEF UnderWayOK
<1>14. UnderWayOK(c)'
  BY <1>3, EndedUnderWay
<1> QED BY <1>12, <1>13, <1>14 DEF StrayInv

\* The same for the deletion of a workspace and the jobs saved meanwhile.
LEMMA DeleteWorkspaceStrays ==
  ASSUME StoreInv, StrayInv, NEW c \in Clients, Busy(c), backend = "postgres",
         UNCHANGED backend, Ends(c), PgDeleteWorkspaceCommit(c)
  PROVE  StrayInv'
<1> PICK t, w, keep : t = call[c].t /\ w = call[c].arg /\ keep = call[c].keep
  OBVIOUS
<1>1. /\ RowsOK /\ (\A d \in Clients : UnderWayOK(d)) /\ STypeOK /\ CallsOK
      /\ call[c].op = "DeleteWorkspace" /\ call[c].step = "commit"
  BY DEF StrayInv, StoreInv, PgDeleteWorkspaceCommit, Statement, At
<1>2. t \in Tenants /\ w \in WorkspaceIDs
  BY <1>1 DEF CallsOK, CallType, Idle
<1>3. /\ UNCHANGED <<tenants, snapshots, migrations, points, audit>>
      /\ \/ UNCHANGED <<workspaces, jobs, raced>>
         \/ /\ workspaces' = workspaces \ {<<t, w>>} /\ jobs' = jobs \ keep
            /\ raced' = raced \cup ({<<t, w>>} \cap BeingSaved)
  BY DEF PgDeleteWorkspaceCommit, RowKey
<1>4. call'[c] = Idle /\ \A d \in Clients \ {c} : call'[d] = call[d]
  BY <1>1, CallEffects DEF Ends
<1>5. UnderWayOK(c)'
  BY <1>4, EndedUnderWay
<1>6. CASE UNCHANGED <<workspaces, jobs, raced>>
  <2>1. UNCHANGED documents /\ \A u \in Tenants : Exists(u) => Exists(u)'
    BY <1>3, <1>6 DEF documents, Exists
  <2> QED BY <1>4, <1>5, <1>6, <2>1, QuietStep
<1>7. CASE /\ workspaces' = workspaces \ {<<t, w>>} /\ jobs' = jobs \ keep
           /\ raced' = raced \cup ({<<t, w>>} \cap BeingSaved)
  <2>1. \A u : Owned(u) => Owned(u)'
    BY <1>3, <1>7 DEF Owned, Exists
  <2>2. \A u, v : <<u, v>> # <<t, w>> /\ Housed(u, v) => Housed(u, v)'
    BY <1>7 DEF Housed
  <2>3. <<t>> \in raced \/ <<t, w>> \in raced \/ \A j \in jobs : j[1] = t /\ j[2] = w => j \in keep
    <3>1. RemovalOK(c, t, w)
      BY <1>1, <1>2 DEF UnderWayOK
    <3> QED BY <1>1, <3>1 DEF RemovalOK, Removing
  <2>4. RowsOK'
    <3>1. ASSUME NEW j \in jobs' PROVE Owned(j[1])' /\ Housed(j[1], j[2])'
      <4>1. j \in jobs /\ j \notin keep /\ Owned(j[1]) /\ Housed(j[1], j[2])
        BY <1>1, <1>7 DEF RowsOK
      <4>2. CASE j[1] = t /\ j[2] = w
        <5>1. <<t>> \in raced' \/ <<t, w>> \in raced'
          BY <1>7, <2>3, <4>1, <4>2
        <5> QED BY <2>1, <4>1, <4>2, <5>1 DEF Housed
      <4>3. CASE ~(j[1] = t /\ j[2] = w)
        <5>1. <<j[1], j[2]>> # <<t, w>>
          BY <4>3
        <5> QED BY <2>1, <2>2, <4>1, <5>1
      <4> QED BY <4>2, <4>3
    <3>2. ASSUME NEW r \in migrations' \cup points' \cup workspaces' PROVE Owned(r[1])'
      <4>1. Owned(r[1])
        BY <1>1, <1>3, <1>7 DEF RowsOK
      <4> QED BY <2>1, <4>1
    <3>3. ASSUME NEW u \in Tenants, snapshots'[u] > 0 \/ audit'[u] > 0 PROVE Owned(u)'
      BY <1>1, <1>3, <2>1, <3>3 DEF RowsOK
    <3> QED BY <3>1, <3>2, <3>3 DEF RowsOK
  <2>5. ASSUME NEW d \in Clients \ {c} PROVE UnderWayOK(d)'
    <3>1. /\ call'[d] = call[d] /\ UnderWayOK(d) /\ raced \subseteq raced'
          /\ jobs' \subseteq jobs /\ workspaces' \subseteq workspaces
      BY <1>1, <1>4, <1>7
    <3>2. SaveOK(d)'
      <4>1. SaveOK(d)
        BY <3>1 DEF UnderWayOK
      <4>2. CASE /\ call[d].op = "SaveWorkspaceJob" /\ call[d].step = "write"
                 /\ <<call[d].t, call[d].arg[1]>> = <<t, w>>
        <5>1. <<t, w>> \in BeingSaved
          BY <4>2, OverlapFacts DEF WorkspaceOf
        <5>2. <<call[d].t, call[d].arg[1]>> \in raced'
          BY <1>7, <4>2, <5>1
        <5> QED BY <2>1, <3>1, <4>1, <4>2, <5>2 DEF SaveOK, Housed
      <4>3. CASE ~(/\ call[d].op = "SaveWorkspaceJob" /\ call[d].step = "write"
                   /\ <<call[d].t, call[d].arg[1]>> = <<t, w>>)
        BY <2>1, <2>2, <3>1, <4>1, <4>3 DEF SaveOK
      <4> QED BY <4>2, <4>3
    <3>3. ASSUME NEW u \in Tenants PROVE DeletionOK(d, u)'
      <4>1. DeletionOK(d, u)
        BY <3>1 DEF UnderWayOK
      <4> QED BY <1>3, <3>1, <4>1 DEF DeletionOK, Deleting
    <3>4. ASSUME NEW u \in Tenants, NEW v \in WorkspaceIDs PROVE RemovalOK(d, u, v)'
      <4>1. RemovalOK(d, u, v)
        BY <3>1 DEF UnderWayOK
      <4> QED BY <3>1, <4>1 DEF RemovalOK, Removing
    <3> QED BY <3>2, <3>3, <3>4 DEF UnderWayOK
  <2> QED BY <1>5, <2>4, <2>5 DEF StrayInv
<1> QED BY <1>3, <1>6, <1>7

\* A request begins before its first statement, and the handlers' reads are not
\* saves.
LEMMA OtherStrays ==
  ASSUME StoreInv, StrayInv, NEW c \in Clients,
         \/ Begin(c) \/ CreateServiceAccount(c) \/ RotateServiceAccountKey(c)
         \/ PgValidateTenant(c)
  PROVE  StrayInv'
<1>1. /\ STypeOK /\ CallsOK /\ UNCHANGED <<backend, tenants, documents, raced>>
  BY DEF StoreInv, Begin, CreateServiceAccount, RotateServiceAccountKey, ReadTenant,
         PgValidateTenant, StoreRest, ReadOnly, history
<1>2. CASE backend = "memory"
  BY <1>1, <1>2 DEF StrayInv, MemoryRows, Exists, documents
<1>3. CASE backend = "postgres"
  <2>1. \A t \in Tenants : Exists(t) => Exists(t)'
    BY <1>1 DEF Exists
  <2>2. /\ \A d \in Clients \ {c} : call'[d] = call[d]
        /\ \/ call'[c] = Idle
           \/ /\ call'[c].op \in Saves => call'[c].step = "ensure"
              /\ call'[c].op \in {"DeleteTenant", "DeleteWorkspace"} => call'[c].step # "commit"
    <3>1. CASE Begin(c)
      <4>1. PICK r \in Requests :
              call' = [call EXCEPT ![c] = [op |-> r.op, t |-> r.t, arg |-> r.arg,
                                           step |-> FirstStep(r.op), keep |-> None]]
        BY <3>1 DEF Begin
      <4>2. call = [d \in Clients |-> call[d]]
        BY <1>1 DEF CallsOK
      <4>3. /\ \A d \in Clients \ {c} : call'[d] = call[d]
            /\ call'[c].op = r.op /\ call'[c].step = FirstStep(r.op)
        BY <4>1, <4>2
      <4>4. /\ r.op \in Saves => FirstStep(r.op) = "ensure"
            /\ r.op \in {"DeleteTenant", "DeleteWorkspace"} => FirstStep(r.op) # "commit"
        BY DEF FirstStep, Saves, Handlers
      <4> QED BY <4>3, <4>4
    <3>2. CASE CreateServiceAccount(c) \/ RotateServiceAccountKey(c) \/ PgValidateTenant(c)
      <4>1. call[c].op \notin Saves \cup {"DeleteTenant", "DeleteWorkspace"} /\ Busy(c)
        BY <3>2 DEF CreateServiceAccount, RotateServiceAccountKey, ReadTenant, At,
                    PgValidateTenant, Statement, Handlers, Saves, Busy
      <4>2. /\ call = [d \in Clients |-> call[d]]
            /\ call[c] = [op |-> call[c].op, t |-> call[c].t, arg |-> call[c].arg,
                          step |-> call[c].step, keep |-> call[c].keep]
        BY <1>1, <4>1, CallShape
      <4>3. CASE Return(c)
        BY <1>1, <4>3, CallEffects
      <4>4. CASE \E s, k : call' = [call EXCEPT ![c].step = s, ![c].keep = k]
        BY <4>1, <4>2, <4>4
      <4>5. CASE \E s : Goto(c, s)
        BY <4>1, <4>2, <4>5 DEF Goto
      <4> QED BY <3>2, <4>3, <4>4, <4>5 DEF CreateServiceAccount, RotateServiceAccountKey,
                 ReadTenant, PgValidateTenant
    <3> QED BY <3>1, <3>2
  <2>3. UnderWayOK(c)'
    BY <2>2 DEF UnderWayOK, SaveOK, DeletionOK, RemovalOK, Deleting, Removing, Idle, Saves
  <2> QED BY <1>1, <1>3, <2>1, <2>2, <2>3, QuietStep
<1> QED BY <1>1, <1>2, <1>3, StoreAssumption DEF STypeOK

\* Opening the database and restarting change no row of PostgreSQL and find no
\* call in progress, or leave none.
LEMMA RestStrays ==
  ASSUME StoreInv, StrayInv,
         PgLoadTenants \/ PgSeedHashes \/ PgClearPlaintext \/ Restart \/ UNCHANGED vars
  PROVE  StrayInv'
<1>1. STypeOK /\ CallsOK
  BY DEF StoreInv
<1>2. CASE PgLoadTenants \/ PgSeedHashes \/ PgClearPlaintext \/ UNCHANGED vars
  <2>1. UNCHANGED <<backend, tenants, documents, raced, call>>
    BY <1>2 DEF PgLoadTenants, PgSeedHashes, PgClearPlaintext, Opening, vars, history
  <2>2. CASE backend = "memory"
    BY <2>1, <2>2 DEF StrayInv, MemoryRows, Exists, documents
  <2>3. CASE backend = "postgres" /\ Clients # {}
    <3>1. PICK c \in Clients : TRUE
      BY <2>3
    <3>2. UnderWayOK(c)
      BY <2>3 DEF StrayInv
    <3>3. UnderWayOK(c)'
      BY <2>1, <3>2 DEF UnderWayOK, SaveOK, DeletionOK, RemovalOK, Deleting, Removing,
           Owned, Housed, Exists, documents
    <3>4. \A t \in Tenants : Exists(t) => Exists(t)'
      BY <2>1 DEF Exists
    <3> QED BY <2>1, <2>3, <3>3, <3>4, QuietStep
  <2>4. CASE backend = "postgres" /\ Clients = {}
    BY <2>1, <2>4 DEF StrayInv, RowsOK, Owned, Housed, Exists, documents
  <2> QED BY <1>1, <2>2, <2>3, <2>4, StoreAssumption DEF STypeOK
<1>3. CASE Restart /\ backend = "memory"
  <2>1. /\ backend' = "memory" /\ snapshots' = Empty /\ audit' = Empty
        /\ migrations' = {} /\ points' = {} /\ workspaces' = {} /\ jobs' = {}
    BY <1>3 DEF Restart
  <2> QED BY <2>1 DEF StrayInv, MemoryRows, Empty
<1>4. CASE Restart /\ backend = "postgres"
  <2>1. UNCHANGED <<backend, tenants, documents, raced>> /\ call' = [c \in Clients |-> Idle]
    BY <1>4 DEF Restart, history
  <2>2. RowsOK'
    BY <1>4, <2>1 DEF StrayInv, RowsOK, Owned, Housed, Exists, documents
  <2>3. ASSUME NEW c \in Clients PROVE UnderWayOK(c)'
    <3>1. call'[c] = Idle
      BY <2>1
    <3> QED BY <3>1, EndedUnderWay
  <2> QED BY <1>4, <2>1, <2>2, <2>3 DEF StrayInv
<1> QED BY <1>1, <1>2, <1>3, <1>4, StoreAssumption DEF STypeOK

\* Rows that have owners or excuses are what the property asks for.
LEMMA StraysExcused ==
  ASSUME STypeOK, StrayInv
  PROVE  StraysAreRaced
<1>1. CASE backend = "memory"
  BY <1>1 DEF StrayInv, MemoryRows, StraysAreRaced, StrayRowsAreRaced, StrayJobsAreRaced, RowTenants
<1>2. CASE backend = "postgres"
  <2>1. RowsOK
    BY <1>2 DEF StrayInv
  <2>2. \A t \in RowTenants : Owned(t)
    BY <2>1 DEF RowsOK, RowTenants
  <2> QED BY <1>2, <2>1, <2>2 DEF RowsOK, Owned, Housed, StraysAreRaced, StrayRowsAreRaced, StrayJobsAreRaced
<1> QED BY <1>1, <1>2, StoreAssumption DEF STypeOK

\* The cascades of DeleteTenant and DeleteWorkspace are complete in both stores:
\* rows without an owner come only from a save that overlapped the deletion, and
\* only in PostgreSQL, for any number of clients and rows.
THEOREM StraysRaced == Spec => []StraysAreRaced
<1>1. Init => StrayInv
  <2>1. ASSUME Init PROVE StrayInv
    <3>1. /\ snapshots = Empty /\ audit = Empty /\ migrations = {} /\ points = {}
          /\ workspaces = {} /\ jobs = {} /\ call = [c \in Clients |-> Idle]
      BY <2>1 DEF Init
    <3>2. MemoryRows /\ RowsOK
      BY <3>1 DEF MemoryRows, RowsOK, Empty
    <3> QED BY <3>1, <3>2 DEF StrayInv, UnderWayOK, SaveOK, DeletionOK, RemovalOK, Deleting,
                  Removing, Idle, Saves
  <2> QED BY <2>1
<1>2. StoreInv /\ StrayInv /\ [Next]_vars => StrayInv'
  <2> SUFFICES ASSUME StoreInv, StrayInv, [Next]_vars PROVE StrayInv'
    OBVIOUS
  <2>1. ASSUME NEW c \in Clients, MemoryOperation(c) PROVE StrayInv'
    BY <2>1, MemoryStrays
  <2>2. ASSUME NEW c \in Clients, PostgresOperation(c) PROVE StrayInv'
    <3>1. Busy(c) /\ backend = "postgres" /\ UNCHANGED backend
      BY <2>2, PostgresSteps
    <3>2. \/ PgEnsureTenant(c) /\ (Ends(c) \/ Moves(c))
          \/ Reads(c) /\ (Ends(c) \/ Moves(c)) /\ ReadOnly
          \/ Inserts(c) /\ Ends(c)
          \/ PgValidateTenant(c) /\ ReadOnly
          \/ PgDeleteTenantRows(c) /\ ReadOnly
          \/ PgDeleteWorkspaceJobs(c) /\ ReadOnly
          \/ Commits(c) /\ Ends(c)
      BY <2>2, PostgresSteps
    <3>3. CASE Commits(c) /\ Ends(c)
      BY <3>1, <3>3, WriteTenantStrays, DeleteTenantStrays, DeleteWorkspaceStrays DEF Commits
    <3> QED BY <3>1, <3>2, <3>3, EnsureStrays, ReadStrays, InsertStrays, OtherStrays,
               DeleteStatementStrays
  <2>3. ASSUME NEW c \in Clients,
               Begin(c) \/ CreateServiceAccount(c) \/ RotateServiceAccountKey(c)
        PROVE  StrayInv'
    BY <2>3, OtherStrays
  <2> QED BY <2>1, <2>2, <2>3, RestStrays DEF Next
<1>3. StoreInv /\ StrayInv => StraysAreRaced
  BY StraysExcused DEF StoreInv
<1> QED BY <1>1, <1>2, <1>3, StoreInvHolds, PTL DEF Spec

-----------------------------------------------------------------------------
\* Quotas.

\* The clients about to insert a snapshot of tenant t, and the clients about to
\* insert or update a migration.
Inserting(t) ==
  {c \in Clients : call[c].op = "SaveDiscovery" /\ call[c].step = "write" /\ call[c].t = t}
Upserters(t) ==
  {c \in Clients : call[c].op = "SaveMigration" /\ call[c].step = "write" /\ call[c].t = t}

\* The migrations of t that are there, and those that are about to be.
MigrationsOf(t) == {m \in migrations : m[1] = t}
Upserting(t) == {<<t, call[c].arg>> : c \in Upserters(t)}

\* Rows that are there or have passed the count are within the slack.
SnapshotsOK(t) ==
  MaxSnapshots > 0 =>
    /\ backend = "memory" => snapshots[t] <= MaxSnapshots
    /\ backend = "postgres" =>
         snapshots[t] + Cardinality(Inserting(t)) <= MaxSnapshots + Cardinality(Clients) - 1
MigrationsOK(t) ==
  MaxMigrations > 0 =>
    /\ IsFiniteSet(MigrationsOf(t))
    /\ backend = "memory" => Cardinality(MigrationsOf(t)) <= MaxMigrations
    /\ backend = "postgres" =>
         Cardinality(MigrationsOf(t) \cup Upserting(t)) <= MaxMigrations + Cardinality(Clients) - 1

QuotaInv == \A t \in Tenants : SnapshotsOK(t) /\ MigrationsOK(t)

\* Clients that are about to write are at most all of them.
LEMMA WriterFacts ==
  ASSUME NEW t
  PROVE  /\ Cardinality(Clients) \in Nat
         /\ IsFiniteSet(Inserting(t)) /\ Cardinality(Inserting(t)) \in 0..Cardinality(Clients)
         /\ IsFiniteSet(Upserting(t)) /\ Cardinality(Upserting(t)) \in 0..Cardinality(Clients)
<1>1. IsFiniteSet(Clients) /\ Cardinality(Clients) \in Nat
  BY StoreAssumption, FS_CardinalityType
<1>2. IsFiniteSet(Inserting(t)) /\ Cardinality(Inserting(t)) <= Cardinality(Clients)
  <2>1. Inserting(t) \in SUBSET Clients
    BY DEF Inserting
  <2> QED BY <1>1, <2>1, FS_Subset
<1>3. IsFiniteSet(Upserters(t)) /\ Cardinality(Upserters(t)) <= Cardinality(Clients)
  <2>1. Upserters(t) \in SUBSET Clients
    BY DEF Upserters
  <2> QED BY <1>1, <2>1, FS_Subset
<1>4. IsFiniteSet(Upserting(t)) /\ Cardinality(Upserting(t)) <= Cardinality(Upserters(t))
  <2> DEFINE f == [c \in Upserters(t) |-> <<t, call[c].arg>>]
  <2>1. f \in Surjection(Upserters(t), Upserting(t))
    BY DEF Surjection, Upserting
  <2> HIDE DEF f
  <2> QED BY <1>3, <2>1, FS_Surjection
<1>5. /\ Cardinality(Inserting(t)) \in Nat /\ Cardinality(Upserters(t)) \in Nat
      /\ Cardinality(Upserting(t)) \in Nat
  BY <1>2, <1>3, <1>4, FS_CardinalityType
<1> QED BY <1>1, <1>2, <1>3, <1>4, <1>5

\* A step that writes no row beyond those about to be written keeps within the
\* quota, and so does one that lets a client write because the quota is not used
\* up.
LEMMA SnapshotQuotaKept ==
  ASSUME STypeOK, STypeOK', UNCHANGED backend, NEW t \in Tenants, SnapshotsOK(t), NEW c,
         \/ snapshots'[t] <= snapshots[t] /\ (backend = "memory" \/ Inserting(t)' \subseteq Inserting(t))
         \/ snapshots'[t] = snapshots[t] /\ snapshotQuotaLeft(t)
         \/ backend = "memory" /\ snapshots'[t] = snapshots[t] + 1 /\ snapshotQuotaLeft(t)
         \/ /\ backend = "postgres" /\ snapshots'[t] = snapshots[t] + 1 /\ c \in Inserting(t)
            /\ Inserting(t)' \subseteq Inserting(t) \ {c}
  PROVE  SnapshotsOK(t)'
<1>1. snapshots[t] \in Nat /\ snapshots'[t] \in Nat /\ MaxSnapshots \in Nat
  BY StoreAssumption DEF STypeOK
<1>2. /\ Cardinality(Clients) \in Nat
      /\ IsFiniteSet(Inserting(t)) /\ Cardinality(Inserting(t)) \in 0..Cardinality(Clients)
  BY WriterFacts
<1>3. IsFiniteSet(Inserting(t)') /\ Cardinality(Inserting(t)') \in 0..Cardinality(Clients)
  <2> DEFINE S == Inserting(t)'
  <2>1. S \in SUBSET Clients
    BY DEF Inserting
  <2> HIDE DEF S
  <2>2. IsFiniteSet(S) /\ Cardinality(S) <= Cardinality(Clients) /\ Cardinality(S) \in Nat
    BY <2>1, FS_Subset, FS_CardinalityType, StoreAssumption
  <2>3. IsFiniteSet(S) /\ Cardinality(S) \in 0..Cardinality(Clients)
    BY <1>2, <2>2
  <2> QED BY <2>3 DEF S
<1>4. ASSUME Inserting(t)' \subseteq Inserting(t)
      PROVE  Cardinality(Inserting(t)') <= Cardinality(Inserting(t))
  BY <1>2, <1>4, FS_Subset
<1>5. ASSUME c \in Inserting(t), Inserting(t)' \subseteq Inserting(t) \ {c}
      PROVE  Cardinality(Inserting(t)') <= Cardinality(Inserting(t)) - 1
  <2>1. IsFiniteSet(Inserting(t) \ {c}) /\ Cardinality(Inserting(t) \ {c}) = Cardinality(Inserting(t)) - 1
    BY <1>2, <1>5, FS_RemoveElement
  <2>2. Cardinality(Inserting(t)') <= Cardinality(Inserting(t) \ {c})
    BY <1>5, <2>1, FS_Subset
  <2> QED BY <2>1, <2>2
<1>6. SnapshotsOK(t)' <=>
        (MaxSnapshots > 0 =>
          /\ backend' = "memory" => snapshots'[t] <= MaxSnapshots
          /\ backend' = "postgres" =>
               snapshots'[t] + Cardinality(Inserting(t)') <= MaxSnapshots + Cardinality(Clients) - 1)
  BY DEF SnapshotsOK
<1>7. \/ snapshots'[t] <= snapshots[t]
           /\ (backend = "memory" \/ Cardinality(Inserting(t)') <= Cardinality(Inserting(t)))
      \/ snapshots'[t] = snapshots[t] /\ snapshotQuotaLeft(t)
      \/ backend = "memory" /\ snapshots'[t] = snapshots[t] + 1 /\ snapshotQuotaLeft(t)
      \/ /\ backend = "postgres" /\ snapshots'[t] = snapshots[t] + 1
         /\ Cardinality(Inserting(t)') <= Cardinality(Inserting(t)) - 1
  BY <1>4, <1>5
<1> QED BY <1>1, <1>2, <1>3, <1>6, <1>7 DEF SnapshotsOK, snapshotQuotaLeft

\* The same for migrations, where an update of a record needs no quota.
LEMMA MigrationQuotaKept ==
  ASSUME UNCHANGED backend, NEW t \in Tenants, MigrationsOK(t), NEW m,
         \/ backend = "memory" /\ MigrationsOf(t)' \subseteq MigrationsOf(t)
         \/ /\ backend = "postgres"
            /\ MigrationsOf(t)' \cup Upserting(t)' \subseteq MigrationsOf(t) \cup Upserting(t)
         \/ MigrationsOf(t)' = MigrationsOf(t) /\ migrationQuotaLeft(t)
         \/ /\ backend = "memory" /\ migrationQuotaLeft(t)
            /\ MigrationsOf(t)' \subseteq MigrationsOf(t) \cup {m}
  PROVE  MigrationsOK(t)'
<1> SUFFICES ASSUME MaxMigrations > 0
             PROVE  /\ IsFiniteSet(MigrationsOf(t)')
                    /\ backend = "memory" => Cardinality(MigrationsOf(t)') <= MaxMigrations
                    /\ backend = "postgres" => Cardinality(MigrationsOf(t)' \cup Upserting(t)') <=
                                                 MaxMigrations + Cardinality(Clients) - 1
  BY DEF MigrationsOK
<1> DEFINE M == MigrationsOf(t)
           N == MigrationsOf(t)'
           U == Upserting(t)
           V == Upserting(t)'
<1>1. MaxMigrations \in Nat /\ Cardinality(Clients) \in Nat /\ IsFiniteSet(U)
  BY WriterFacts, StoreAssumption
<1>2. IsFiniteSet(V) /\ Cardinality(V) \in 0..Cardinality(Clients)
  <2> DEFINE f == [c \in Upserters(t)' |-> <<t, call'[c].arg>>]
             W == Upserters(t)'
  <2>1. W \in SUBSET Clients
    BY DEF Upserters
  <2>2. f \in Surjection(W, V)
    BY DEF Surjection, Upserting
  <2> HIDE DEF f, W, V
  <2>3. IsFiniteSet(W) /\ Cardinality(W) <= Cardinality(Clients) /\ Cardinality(W) \in Nat
    BY <2>1, FS_Subset, FS_CardinalityType, StoreAssumption
  <2>4. IsFiniteSet(V) /\ Cardinality(V) <= Cardinality(W) /\ Cardinality(V) \in Nat
    BY <2>2, <2>3, FS_Surjection, FS_CardinalityType
  <2> QED BY <1>1, <2>3, <2>4
<1>3. /\ IsFiniteSet(M) /\ Cardinality(M) \in Nat
      /\ backend = "memory" => Cardinality(M) <= MaxMigrations
      /\ backend = "postgres" => Cardinality(M \cup U) <= MaxMigrations + Cardinality(Clients) - 1
  BY FS_CardinalityType DEF MigrationsOK
<1>4. migrationQuotaLeft(t) => Cardinality(M) <= MaxMigrations - 1
  BY <1>1, <1>3 DEF migrationQuotaLeft, migrationCount, MigrationsOf
<1>5. \/ backend = "memory" /\ N \subseteq M
      \/ backend = "postgres" /\ N \cup V \subseteq M \cup U
      \/ N = M /\ migrationQuotaLeft(t)
      \/ backend = "memory" /\ N \subseteq M \cup {m} /\ migrationQuotaLeft(t)
  OBVIOUS
<1> SUFFICES /\ IsFiniteSet(N)
             /\ backend = "memory" => Cardinality(N) <= MaxMigrations
             /\ backend = "postgres" => Cardinality(N \cup V) <= MaxMigrations + Cardinality(Clients) - 1
  OBVIOUS
<1> HIDE DEF M, N, U, V
<1>7. CASE backend = "memory" /\ N \subseteq M
  <2>1. IsFiniteSet(N) /\ Cardinality(N) <= Cardinality(M) /\ Cardinality(N) \in Nat
    BY <1>3, <1>7, FS_Subset, FS_CardinalityType
  <2> QED BY <1>1, <1>3, <1>7, <2>1
<1>8. CASE backend = "postgres" /\ N \cup V \subseteq M \cup U
  <2>1. IsFiniteSet(M \cup U) /\ Cardinality(M \cup U) \in Nat
    BY <1>1, <1>3, FS_Union, FS_CardinalityType
  <2>2. IsFiniteSet(N \cup V) /\ Cardinality(N \cup V) <= Cardinality(M \cup U)
    BY <1>8, <2>1, FS_Subset
  <2>3. IsFiniteSet(N) /\ Cardinality(N \cup V) \in Nat
    BY <2>2, FS_Subset, FS_CardinalityType
  <2> QED BY <1>1, <1>3, <1>8, <2>1, <2>2, <2>3
<1>9. CASE N = M /\ migrationQuotaLeft(t)
  <2>1. IsFiniteSet(N \cup V)
        /\ Cardinality(N \cup V) = Cardinality(N) + Cardinality(V) - Cardinality(N \cap V)
    BY <1>2, <1>3, <1>9, FS_Union
  <2>2. Cardinality(N \cap V) \in Nat /\ Cardinality(N \cup V) \in Nat
    BY <1>2, <2>1, FS_Intersection, FS_CardinalityType
  <2> QED BY <1>1, <1>2, <1>3, <1>4, <1>9, <2>1, <2>2
<1>10. CASE backend = "memory" /\ N \subseteq M \cup {m} /\ migrationQuotaLeft(t)
  <2>1. /\ IsFiniteSet(M \cup {m}) /\ Cardinality(M \cup {m}) \in Nat
        /\ Cardinality(M \cup {m}) <= Cardinality(M) + 1
    BY <1>3, FS_AddElement, FS_CardinalityType
  <2>2. IsFiniteSet(N) /\ Cardinality(N) <= Cardinality(M \cup {m}) /\ Cardinality(N) \in Nat
    BY <1>10, <2>1, FS_Subset, FS_CardinalityType
  <2> QED BY <1>1, <1>3, <1>4, <1>10, <2>1, <2>2
<1> QED BY <1>5, <1>7, <1>8, <1>9, <1>10

\* Which steps bring a client to the statement that inserts a snapshot or upserts
\* a migration.
LEMMA WriteEntered ==
  ASSUME StoreInv, [Next]_vars, NEW d \in Clients, call'[d] # call[d],
         call'[d].op \in {"SaveDiscovery", "SaveMigration"}, call'[d].step = "write"
  PROVE  /\ \/ PgSaveDiscoveryCount(d) /\ call'[d].op = "SaveDiscovery"
                 /\ snapshotQuotaLeft(call[d].t)
            \/ PgSaveMigrationExists(d) /\ call'[d].op = "SaveMigration"
                 /\ (MaxMigrations = 0 \/ RowKey(d) \in migrations)
            \/ PgSaveMigrationCount(d) /\ call'[d].op = "SaveMigration"
                 /\ migrationQuotaLeft(call[d].t)
         /\ call'[d].t = call[d].t /\ call'[d].arg = call[d].arg
         /\ backend = "postgres" /\ UNCHANGED <<backend, snapshots, migrations>>
         /\ \A e \in Clients \ {d} : call'[e] = call[e]
<1>1. CallsOK
  BY DEF StoreInv
<1>2. ASSUME NEW c \in Clients, Return(c) PROVE FALSE
  <2>1. call'[c] = Idle /\ \A e \in Clients \ {c} : call'[e] = call[e]
    BY <1>1, <1>2, CallEffects
  <2> QED BY <2>1 DEF Idle
<1>3. ASSUME NEW c \in Clients, NEW s, Busy(c), Goto(c, s)
      PROVE  /\ c = d /\ s = "write" /\ call'[d].op = call[d].op
             /\ call'[d].t = call[d].t /\ call'[d].arg = call[d].arg
             /\ \A e \in Clients \ {d} : call'[e] = call[e]
  <2>1. /\ call'[c] = [op |-> call[c].op, t |-> call[c].t, arg |-> call[c].arg,
                       step |-> s, keep |-> call[c].keep]
        /\ \A e \in Clients \ {c} : call'[e] = call[e]
    BY <1>1, <1>3, CallEffects
  <2> QED BY <2>1
<1>4. ASSUME NEW c \in Clients, NEW k, Busy(c),
             call' = [call EXCEPT ![c].step = "commit", ![c].keep = k]
               \/ call' = [call EXCEPT ![c].step = "validate", ![c].keep = k]
      PROVE  FALSE
  <2>1. /\ call = [e \in Clients |-> call[e]]
        /\ call[c] = [op |-> call[c].op, t |-> call[c].t, arg |-> call[c].arg,
                      step |-> call[c].step, keep |-> call[c].keep]
    BY <1>1, <1>4, CallShape
  <2>2. call'[c].step # "write" /\ \A e \in Clients \ {c} : call'[e] = call[e]
    BY <1>4, <2>1
  <2> QED BY <2>2
<1>5. ASSUME NEW c \in Clients, Begin(c) PROVE FALSE
  <2>1. PICK r \in Requests :
          call' = [call EXCEPT ![c] = [op |-> r.op, t |-> r.t, arg |-> r.arg,
                                       step |-> FirstStep(r.op), keep |-> None]]
    BY <1>5 DEF Begin
  <2>2. call = [e \in Clients |-> call[e]]
    BY <1>1 DEF CallsOK
  <2>3. /\ \A e \in Clients \ {c} : call'[e] = call[e]
        /\ call'[c].step = FirstStep(r.op)
    BY <2>1, <2>2
  <2>4. FirstStep(r.op) # "write"
    BY DEF FirstStep, Saves, Handlers
  <2> QED BY <2>3, <2>4
<1>6. ASSUME NEW c \in Clients, CreateServiceAccount(c) \/ RotateServiceAccountKey(c) PROVE FALSE
  <2>1. /\ Busy(c)
        /\ Return(c) \/ \E k : call' = [call EXCEPT ![c].step = "validate", ![c].keep = k]
    BY <1>6 DEF CreateServiceAccount, RotateServiceAccountKey, ReadTenant, At, Busy
  <2> QED BY <1>2, <1>4, <2>1
<1>7. ASSUME NEW c \in Clients, MemoryOperation(c) PROVE FALSE
  BY <1>2, <1>7, MemoryEnds
<1>8. ASSUME PgLoadTenants \/ PgSeedHashes \/ PgClearPlaintext \/ UNCHANGED vars PROVE FALSE
  BY <1>8 DEF PgLoadTenants, PgSeedHashes, PgClearPlaintext, Opening, vars
<1>9. ASSUME Restart PROVE FALSE
  <2>1. call'[d] = Idle
    BY <1>9 DEF Restart
  <2> QED BY <2>1 DEF Idle
<1>10. ASSUME NEW c \in Clients, PostgresOperation(c)
       PROVE  /\ c = d /\ call'[d].t = call[d].t /\ call'[d].arg = call[d].arg
              /\ call'[d].op = call[d].op
              /\ \A e \in Clients \ {d} : call'[e] = call[e]
              /\ \/ PgSaveDiscoveryCount(d) /\ Goto(d, "write")
                 \/ PgSaveMigrationExists(d) /\ Goto(d, "write")
                 \/ PgSaveMigrationCount(d) /\ Goto(d, "write")
  <2>1. Busy(c) /\ ~Return(c)
    BY <1>2, <1>10, PostgresSteps
  <2>2. CASE PgEnsureTenant(c)
    <3>1. Goto(c, "check")
      BY <2>1, <2>2 DEF PgEnsureTenant
    <3> QED BY <1>3, <2>1, <3>1
  <2>3. CASE PgSaveDiscoveryCount(c)
    <3>1. Goto(c, "write")
      BY <2>1, <2>3 DEF PgSaveDiscoveryCount
    <3> QED BY <1>3, <2>1, <2>3, <3>1
  <2>4. CASE PgSaveMigrationExists(c)
    <3>1. Goto(c, "write") \/ Goto(c, "count")
      BY <2>4 DEF PgSaveMigrationExists
    <3> QED BY <1>3, <2>1, <2>4, <3>1
  <2>5. CASE PgSaveMigrationCount(c)
    <3>1. Goto(c, "write")
      BY <2>1, <2>5 DEF PgSaveMigrationCount
    <3> QED BY <1>3, <2>1, <2>5, <3>1
  <2>6. CASE PgUpdateWorkspaceRead(c) \/ PgUpdateWorkspaceWrite(c) \/ PgSaveWorkspaceJobRead(c)
               \/ PgSaveWorkspaceJobWorkspace(c) \/ PgStatementFails(c)
    <3>1. (\E s : Goto(c, s)) /\ call[c].op \in {"UpdateWorkspace", "SaveWorkspaceJob"}
      BY <2>1, <2>6 DEF PgUpdateWorkspaceRead, PgUpdateWorkspaceWrite, PgSaveWorkspaceJobRead,
           PgSaveWorkspaceJobWorkspace, PgStatementFails, Statement, At
    <3> QED BY <1>3, <2>1, <3>1
  <2>7. CASE PgValidateTenant(c)
    <3>1. Goto(c, "commit")
      BY <2>1, <2>7 DEF PgValidateTenant
    <3> QED BY <1>3, <2>1, <3>1
  <2>8. CASE PgDeleteTenantRows(c) \/ PgDeleteWorkspaceJobs(c)
    <3>1. \E k : call' = [call EXCEPT ![c].step = "commit", ![c].keep = k]
      BY <2>1, <2>8 DEF PgDeleteTenantRows, PgDeleteWorkspaceJobs
    <3> QED BY <1>4, <2>1, <3>1
  <2>9. ~Inserts(c) /\ ~Commits(c)
    BY <2>1 DEF Inserts, Commits, PgSaveDiscoveryInsert, PgSaveMigrationUpsert,
         PgSaveRecoveryPointUpsert, PgSaveAuditEventInsert, PgCreateWorkspaceInsert,
         PgSaveWorkspaceJobUpsert, PgCreateTenantCommit, PgUpdateTenantCommit,
         PgDeleteTenantCommit, PgDeleteWorkspaceCommit
  <2> QED BY <1>10, <2>2, <2>3, <2>4, <2>5, <2>6, <2>7, <2>8, <2>9 DEF PostgresOperation, Inserts, Commits
<1>11. /\ call'[d].t = call[d].t /\ call'[d].arg = call[d].arg /\ call'[d].op = call[d].op
       /\ \A e \in Clients \ {d} : call'[e] = call[e]
       /\ \/ PgSaveDiscoveryCount(d) /\ Goto(d, "write")
          \/ PgSaveMigrationExists(d) /\ Goto(d, "write")
          \/ PgSaveMigrationCount(d) /\ Goto(d, "write")
  <2>1. \E c \in Clients : PostgresOperation(c)
    BY <1>5, <1>6, <1>7, <1>8, <1>9 DEF Next
  <2>2. PICK c \in Clients : PostgresOperation(c)
    BY <2>1
  <2> QED BY <1>10, <2>2
<1>12. Busy(d) /\ (\A s : Goto(d, s) => s = "write") /\ ~Return(d)
  BY <1>2, <1>3, <1>11 DEF Busy, PgSaveDiscoveryCount, PgSaveMigrationExists, PgSaveMigrationCount,
       Statement, At
<1> QED BY <1>11, <1>12 DEF PgSaveDiscoveryCount, PgSaveMigrationExists, PgSaveMigrationCount,
              Statement, At, StoreRest, ReadOnly, documents

\* Which steps add a snapshot or a migration.
LEMMA TablesGrow ==
  ASSUME StoreInv, [Next]_vars
  PROVE  /\ UNCHANGED backend
         /\ \/ \A t \in Tenants : snapshots'[t] <= snapshots[t]
            \/ \E c \in Clients :
                 /\ MemSaveDiscovery(c) /\ snapshotQuotaLeft(call[c].t) /\ call[c].t \in Tenants
                 /\ InsertSnapshot(call[c].t)
            \/ \E c \in Clients : PgSaveDiscoveryInsert(c) /\ call[c].t \in Tenants
         /\ \/ migrations' \subseteq migrations
            \/ \E c \in Clients :
                 /\ MemSaveMigration(c) /\ migrationQuotaLeft(call[c].t)
                 /\ migrations' = migrations \cup {RowKey(c)}
            \/ \E c \in Clients : PgSaveMigrationUpsert(c)
<1>1. STypeOK /\ CallsOK /\ DeletesOK
  BY DEF StoreInv
<1>2. \A t \in Tenants : snapshots[t] \in Nat
  BY <1>1 DEF STypeOK
<1>3. ASSUME UNCHANGED snapshots PROVE \A t \in Tenants : snapshots'[t] <= snapshots[t]
  BY <1>2, <1>3
<1>4. ASSUME NEW c \in Clients PROVE Busy(c) => call[c].t \in Tenants
  BY <1>1 DEF CallsOK, CallType, Idle, Busy
<1>5. ASSUME NEW c \in Clients,
             Begin(c) \/ CreateServiceAccount(c) \/ RotateServiceAccountKey(c)
      PROVE  UNCHANGED <<backend, snapshots, migrations>>
  BY <1>5 DEF Begin, CreateServiceAccount, RotateServiceAccountKey, ReadTenant, documents
<1>6. ASSUME PgLoadTenants \/ PgSeedHashes \/ PgClearPlaintext \/ UNCHANGED vars
      PROVE  UNCHANGED <<backend, snapshots, migrations>>
  BY <1>6 DEF PgLoadTenants, PgSeedHashes, PgClearPlaintext, Opening, vars, documents
<1>7. CASE Restart
  <2>1. /\ UNCHANGED backend
        /\ \/ snapshots' = Empty /\ migrations' = {}
           \/ UNCHANGED <<snapshots, migrations>>
    BY <1>7 DEF Restart, documents
  <2>2. snapshots' = Empty => \A t \in Tenants : snapshots'[t] <= snapshots[t]
    BY <1>2 DEF Empty
  <2> QED BY <1>3, <2>1, <2>2
<1>8. ASSUME NEW c \in Clients, NEW rows, NEW t \in Tenants, RemoveRows(t, rows),
             rows.snapshots \in 0..snapshots[t]
      PROVE  migrations' \subseteq migrations /\ \A u \in Tenants : snapshots'[u] <= snapshots[u]
  <2>1. /\ snapshots' = [snapshots EXCEPT ![t] = snapshots[t] - rows.snapshots]
        /\ migrations' \subseteq migrations
    BY <1>8 DEF RemoveRows
  <2>2. snapshots[t] - rows.snapshots <= snapshots[t]
    BY <1>2, <1>8
  <2> QED BY <1>1, <1>2, <2>1, <2>2 DEF STypeOK
<1>9. CASE \E c \in Clients : MemoryOperation(c)
  <2>1. PICK c \in Clients : MemoryOperation(c)
    BY <1>9
  <2>2. UNCHANGED backend /\ Busy(c) /\ call[c].t \in Tenants
    BY <1>4, <2>1, MemoryEnds
  <2>3. CASE MemSaveDiscovery(c)
    <3>1. /\ UNCHANGED migrations
          /\ UNCHANGED snapshots \/ (snapshotQuotaLeft(call[c].t) /\ InsertSnapshot(call[c].t))
      BY <2>3 DEF MemSaveDiscovery
    <3> QED BY <1>3, <2>2, <2>3, <3>1
  <2>4. CASE MemSaveMigration(c)
    <3>1. /\ UNCHANGED snapshots
          /\ \/ migrations' \subseteq migrations
             \/ migrationQuotaLeft(call[c].t) /\ migrations' = migrations \cup {RowKey(c)}
      BY <2>4 DEF MemSaveMigration
    <3> QED BY <1>3, <2>2, <2>4, <3>1
  <2>5. CASE MemDeleteTenant(c)
    <3>1. UNCHANGED <<snapshots, migrations>> \/ RemoveRows(call[c].t, RowsOf(call[c].t))
      BY <2>5 DEF MemDeleteTenant, documents
    <3>2. RowsOf(call[c].t).snapshots \in 0..snapshots[call[c].t]
      BY <1>2, <2>2 DEF RowsOf
    <3> QED BY <1>3, <1>8, <2>2, <3>1, <3>2
  <2>6. CASE ~(MemSaveDiscovery(c) \/ MemSaveMigration(c) \/ MemDeleteTenant(c))
    <3>1. UNCHANGED <<snapshots, migrations>>
      BY <2>1, <2>6 DEF MemoryOperation, MemSaveRecoveryPoint, MemSaveAuditEvent,
           MemCreateWorkspace, MemUpdateWorkspace, MemDeleteWorkspace, MemSaveWorkspaceJob,
           MemCreateTenant, MemUpdateTenant, documents
    <3> QED BY <1>3, <2>2, <3>1
  <2> QED BY <2>3, <2>4, <2>5, <2>6
<1>10. CASE \E c \in Clients : PostgresOperation(c)
  <2>1. PICK c \in Clients : PostgresOperation(c)
    BY <1>10
  <2>2. UNCHANGED backend /\ Busy(c) /\ call[c].t \in Tenants
    BY <1>4, <2>1, PostgresSteps
  <2>3. CASE PgSaveDiscoveryInsert(c)
    <3>1. UNCHANGED migrations
      BY <2>3 DEF PgSaveDiscoveryInsert
    <3> QED BY <2>2, <2>3, <3>1
  <2>4. CASE PgSaveMigrationUpsert(c)
    <3>1. UNCHANGED snapshots
      BY <2>4 DEF PgSaveMigrationUpsert
    <3> QED BY <1>3, <2>2, <2>4, <3>1
  <2>5. CASE PgDeleteTenantCommit(c)
    <3>1. RemoveRows(call[c].t, call[c].keep) /\ Deleting(c, call[c].t)
      BY <2>5 DEF PgDeleteTenantCommit, Deleting, Statement, At
    <3>2. call[c].keep.snapshots \in 0..snapshots[call[c].t]
      BY <1>1, <2>2, <3>1 DEF DeletesOK
    <3> QED BY <1>8, <2>2, <3>1, <3>2
  <2>6. CASE ~(PgSaveDiscoveryInsert(c) \/ PgSaveMigrationUpsert(c) \/ PgDeleteTenantCommit(c))
    <3>1. CASE ReadOnly
      BY <1>3, <2>2, <3>1 DEF ReadOnly, documents
    <3>2. CASE PgEnsureTenant(c)
      BY <1>3, <2>2, <3>2 DEF PgEnsureTenant, documents
    <3>3. CASE Inserts(c) \/ Commits(c)
      <4>1. UNCHANGED <<snapshots, migrations>>
        BY <2>6, <3>3 DEF Inserts, Commits, PgSaveRecoveryPointUpsert, PgSaveAuditEventInsert,
             PgCreateWorkspaceInsert, PgSaveWorkspaceJobUpsert, PgCreateTenantCommit,
             PgUpdateTenantCommit, PgDeleteWorkspaceCommit, documents
      <4> QED BY <1>3, <2>2, <4>1
    <3> QED BY <2>1, <3>1, <3>2, <3>3, PostgresSteps
  <2> QED BY <2>3, <2>4, <2>5, <2>6
<1>11. ASSUME UNCHANGED <<backend, snapshots, migrations>>
       PROVE  /\ UNCHANGED backend /\ migrations' \subseteq migrations
              /\ \A t \in Tenants : snapshots'[t] <= snapshots[t]
  BY <1>3, <1>11
<1>12. \/ UNCHANGED <<backend, snapshots, migrations>> \/ Restart
       \/ \E c \in Clients : MemoryOperation(c) \/ PostgresOperation(c)
  BY <1>5, <1>6 DEF Next
<1> QED BY <1>7, <1>9, <1>10, <1>11, <1>12

\* A quota is passed by no more rows than there are other clients, in PostgreSQL,
\* and never in the memory store.
LEMMA QuotaStep ==
  ASSUME StoreInv, StoreInv', QuotaInv, [Next]_vars, NEW t \in Tenants
  PROVE  SnapshotsOK(t)' /\ MigrationsOK(t)'
<1>1. STypeOK /\ STypeOK' /\ CallsOK /\ SnapshotsOK(t) /\ MigrationsOK(t) /\ UNCHANGED backend
      /\ snapshots[t] \in Nat /\ (backend = "memory" \/ backend = "postgres")
  BY TablesGrow, StoreAssumption DEF StoreInv, QuotaInv, STypeOK
<1>2. CASE \E d \in Clients : /\ call'[d] # call[d] /\ call'[d].step = "write"
                              /\ call'[d].op \in {"SaveDiscovery", "SaveMigration"}
  <2>1. PICK d \in Clients : /\ call'[d] # call[d] /\ call'[d].step = "write"
                             /\ call'[d].op \in {"SaveDiscovery", "SaveMigration"}
    BY <1>2
  <2>2. /\ \/ call'[d].op = "SaveDiscovery" /\ call[d].op = "SaveDiscovery" /\ snapshotQuotaLeft(call[d].t)
           \/ call'[d].op = "SaveMigration" /\ call[d].op = "SaveMigration"
                /\ (MaxMigrations = 0 \/ RowKey(d) \in migrations \/ migrationQuotaLeft(call[d].t))
        /\ call'[d].t = call[d].t /\ call'[d].arg = call[d].arg
        /\ backend = "postgres" /\ UNCHANGED <<backend, snapshots, migrations>>
        /\ \A e \in Clients \ {d} : call'[e] = call[e]
    BY <2>1, WriteEntered DEF PgSaveDiscoveryCount, PgSaveMigrationExists, PgSaveMigrationCount,
         Statement, At
  <2>3. MigrationsOf(t)' = MigrationsOf(t) /\ snapshots'[t] <= snapshots[t]
    BY <1>1, <2>2 DEF MigrationsOf
  <2>4. SnapshotsOK(t)'
    <3>1. Inserting(t)' \subseteq Inserting(t) \/ snapshotQuotaLeft(t)
      BY <2>2 DEF Inserting
    <3> QED BY <1>1, <2>2, <2>3, <3>1, SnapshotQuotaKept
  <2>5. MigrationsOK(t)'
    <3>1. CASE MaxMigrations = 0
      BY <3>1 DEF MigrationsOK
    <3>2. CASE migrationQuotaLeft(t)
      BY <1>1, <2>3, <3>2, MigrationQuotaKept
    <3>3. CASE MaxMigrations # 0 /\ ~migrationQuotaLeft(t)
      <4>1. ASSUME NEW e \in Upserters(t)' PROVE <<t, call'[e].arg>> \in MigrationsOf(t) \cup Upserting(t)
        <5>1. CASE e # d
          BY <2>2, <4>1, <5>1 DEF Upserters, Upserting
        <5>2. CASE e = d
          <6>1. call[d].t = t /\ RowKey(d) \in migrations
            BY <2>2, <3>3, <4>1, <5>2 DEF Upserters
          <6> QED BY <2>2, <5>2, <6>1 DEF MigrationsOf, RowKey
        <5> QED BY <5>1, <5>2
      <4>2. Upserting(t)' \subseteq MigrationsOf(t) \cup Upserting(t)
        BY <4>1 DEF Upserting
      <4>3. MigrationsOf(t)' \cup Upserting(t)' \subseteq MigrationsOf(t) \cup Upserting(t)
        BY <2>3, <4>2
      <4> QED BY <1>1, <2>2, <4>3, MigrationQuotaKept
    <3> QED BY <3>1, <3>2, <3>3
  <2> QED BY <2>4, <2>5
<1>3. CASE ~\E d \in Clients : /\ call'[d] # call[d] /\ call'[d].step = "write"
                               /\ call'[d].op \in {"SaveDiscovery", "SaveMigration"}
  <2>1. Inserting(t)' \subseteq Inserting(t) /\ Upserters(t)' \subseteq Upserters(t)
    BY <1>3 DEF Inserting, Upserters
  <2>2. Upserting(t)' \subseteq Upserting(t)
    <3>1. ASSUME NEW e \in Upserters(t)' PROVE <<t, call'[e].arg>> \in Upserting(t)
      BY <1>3, <2>1 DEF Upserters, Upserting
    <3> QED BY <3>1 DEF Upserting
  <2>3. SnapshotsOK(t)'
    <3>1. CASE \A u \in Tenants : snapshots'[u] <= snapshots[u]
      BY <1>1, <2>1, <3>1, SnapshotQuotaKept
    <3>2. ASSUME NEW c \in Clients, InsertSnapshot(call[c].t), call[c].t \in Tenants
          PROVE  (snapshots'[t] = snapshots[t] + 1 /\ call[c].t = t) \/ snapshots'[t] <= snapshots[t]
      BY <1>1, <3>2 DEF InsertSnapshot, STypeOK
    <3>3. ASSUME NEW c \in Clients, MemSaveDiscovery(c), snapshotQuotaLeft(call[c].t),
                 call[c].t \in Tenants, InsertSnapshot(call[c].t)
          PROVE  SnapshotsOK(t)'
      <4>1. backend = "memory"
        BY <3>3 DEF MemSaveDiscovery, Memory
      <4> QED BY <1>1, <2>1, <3>2, <3>3, <4>1, SnapshotQuotaKept
    <3>4. ASSUME NEW c \in Clients, PgSaveDiscoveryInsert(c), call[c].t \in Tenants
          PROVE  SnapshotsOK(t)'
      <4>1. /\ backend = "postgres" /\ InsertSnapshot(call[c].t) /\ Return(c)
            /\ call[c].op = "SaveDiscovery" /\ call[c].step = "write"
        BY <3>4 DEF PgSaveDiscoveryInsert, Statement, At
      <4>2. call'[c] = Idle
        BY <1>1, <4>1, CallEffects
      <4>3. c \notin Inserting(t)' /\ (call[c].t = t => c \in Inserting(t))
        BY <4>1, <4>2 DEF Inserting, Idle
      <4>4. Inserting(t)' \subseteq Inserting(t) \ {c}
        BY <2>1, <4>3
      <4> QED BY <1>1, <2>1, <3>2, <3>4, <4>1, <4>3, <4>4, SnapshotQuotaKept
    <3> QED BY <3>1, <3>3, <3>4, TablesGrow
  <2>4. MigrationsOK(t)'
    <3>1. CASE migrations' \subseteq migrations
      <4>1. MigrationsOf(t)' \subseteq MigrationsOf(t)
        BY <3>1 DEF MigrationsOf
      <4>2. MigrationsOf(t)' \cup Upserting(t)' \subseteq MigrationsOf(t) \cup Upserting(t)
        BY <2>2, <4>1
      <4> QED BY <1>1, <4>1, <4>2, MigrationQuotaKept
    <3>2. ASSUME NEW c \in Clients, MemSaveMigration(c), migrationQuotaLeft(call[c].t),
                 migrations' = migrations \cup {RowKey(c)}
          PROVE  MigrationsOK(t)'
      <4>1. backend = "memory" /\ RowKey(c)[1] = call[c].t
        BY <3>2 DEF MemSaveMigration, Memory, RowKey
      <4>2. IF call[c].t = t THEN MigrationsOf(t)' \subseteq MigrationsOf(t) \cup {RowKey(c)}
                             ELSE MigrationsOf(t)' \subseteq MigrationsOf(t)
        BY <3>2, <4>1 DEF MigrationsOf
      <4> QED BY <1>1, <3>2, <4>1, <4>2, MigrationQuotaKept
    <3>3. ASSUME NEW c \in Clients, PgSaveMigrationUpsert(c) PROVE MigrationsOK(t)'
      <4>1. /\ backend = "postgres" /\ migrations' = migrations \cup {RowKey(c)}
            /\ call[c].op = "SaveMigration" /\ call[c].step = "write"
        BY <3>3 DEF PgSaveMigrationUpsert, Statement, At
      <4>2. call[c].t = t => RowKey(c) \in Upserting(t)
        BY <4>1 DEF Upserting, Upserters, RowKey
      <4>3. RowKey(c)[1] = call[c].t
        BY DEF RowKey
      <4>4. MigrationsOf(t)' \subseteq MigrationsOf(t) \cup Upserting(t)
        BY <4>1, <4>2, <4>3 DEF MigrationsOf
      <4>5. MigrationsOf(t)' \cup Upserting(t)' \subseteq MigrationsOf(t) \cup Upserting(t)
        BY <2>2, <4>4
      <4> QED BY <1>1, <4>1, <4>5, MigrationQuotaKept
    <3> QED BY <3>1, <3>2, <3>3, TablesGrow
  <2> QED BY <2>3, <2>4
<1> QED BY <1>2, <1>3

\* Concurrent saves pass a quota by at most one row per other client in PostgreSQL,
\* whose count and insert are separate statements, and the memory store never passes
\* it, for every quota and every finite set of clients.
THEOREM QuotaKept == Spec => []QuotaOvershoot
<1>1. Init => QuotaInv
  <2>1. ASSUME Init, NEW t \in Tenants PROVE SnapshotsOK(t) /\ MigrationsOK(t)
    <3>1. snapshots[t] = 0 /\ migrations = {} /\ call = [c \in Clients |-> Idle]
      BY <2>1 DEF Init, Empty
    <3>2. Inserting(t) = {} /\ Upserting(t) = {} /\ MigrationsOf(t) = {}
      BY <3>1 DEF Inserting, Upserting, Upserters, MigrationsOf, Idle
    <3>3. Cardinality({}) = 0 /\ IsFiniteSet({}) /\ Cardinality(Clients) \in Nat
      BY FS_EmptySet, WriterFacts
    <3>4. MigrationsOf(t) \cup Upserting(t) = {}
      BY <3>2
    <3>5. SnapshotsOK(t)
      BY <3>1, <3>2, <3>3, StoreAssumption DEF SnapshotsOK
    <3>6. MigrationsOK(t)
      BY <3>2, <3>3, <3>4, StoreAssumption DEF MigrationsOK
    <3> QED BY <3>5, <3>6
  <2> QED BY <2>1 DEF QuotaInv
<1>2. StoreInv /\ StoreInv' /\ QuotaInv /\ [Next]_vars => QuotaInv'
  BY QuotaStep DEF QuotaInv
<1>3. StoreInv /\ QuotaInv => QuotaOvershoot
  <2>1. ASSUME StoreInv, QuotaInv, NEW t \in Tenants
        PROVE  /\ MaxSnapshots > 0 =>
                    snapshots[t] <= MaxSnapshots + (IF backend = "memory" THEN 0 ELSE Cardinality(Clients) - 1)
               /\ MaxMigrations > 0 =>
                    migrationCount(t) <= MaxMigrations + (IF backend = "memory" THEN 0 ELSE Cardinality(Clients) - 1)
    <3>1. /\ SnapshotsOK(t) /\ MigrationsOK(t) /\ snapshots[t] \in Nat
          /\ backend = "memory" \/ backend = "postgres"
      BY <2>1, StoreAssumption DEF QuotaInv, StoreInv, STypeOK
    <3>2. /\ Cardinality(Clients) \in Nat /\ Cardinality(Inserting(t)) \in Nat
          /\ IsFiniteSet(Upserting(t))
      BY WriterFacts
    <3>3. MaxSnapshots > 0 =>
            snapshots[t] <= MaxSnapshots + (IF backend = "memory" THEN 0 ELSE Cardinality(Clients) - 1)
      BY <3>1, <3>2, StoreAssumption DEF SnapshotsOK
    <3>4. ASSUME MaxMigrations > 0
          PROVE  migrationCount(t) <= MaxMigrations + (IF backend = "memory" THEN 0 ELSE Cardinality(Clients) - 1)
      <4>1. migrationCount(t) = Cardinality(MigrationsOf(t)) /\ IsFiniteSet(MigrationsOf(t))
        BY <3>1, <3>4 DEF migrationCount, MigrationsOf, MigrationsOK
      <4>2. IsFiniteSet(MigrationsOf(t) \cup Upserting(t))
        BY <3>2, <4>1, FS_Union
      <4>3. Cardinality(MigrationsOf(t)) <= Cardinality(MigrationsOf(t) \cup Upserting(t))
        BY <4>2, FS_Subset
      <4>4. Cardinality(MigrationsOf(t)) \in Nat /\ Cardinality(MigrationsOf(t) \cup Upserting(t)) \in Nat
        BY <4>1, <4>2, FS_CardinalityType
      <4> QED BY <3>1, <3>2, <3>4, <4>1, <4>3, <4>4, StoreAssumption DEF MigrationsOK
    <3> QED BY <3>3, <3>4
  <2> QED BY <2>1 DEF QuotaOvershoot
<1> QED BY <1>1, <1>2, <1>3, StoreInvHolds, PTL DEF Spec
=============================================================================
