-------------------------- MODULE ServerReadiness --------------------------
(***************************************************************************)
(* What the API server demands before it listens (validateProductionStartup *)
(* and validateBindSecurity in internal/api/server.go), what /readyz and     *)
(* /about then report, and what `viaduct doctor` reports about the same      *)
(* installation (cmd/viaduct/runtime_local.go): three judgements of one      *)
(* environment, which changes while the server runs.                        *)
(***************************************************************************)
EXTENDS Naturals

VARIABLES
    env,      \* the installation: configuration, store, keys and assets
    srv,      \* created, serving or refused
    changed   \* the environment differs from the one the server started in

qvars == <<env, srv, changed>>

AdminKeys == {"none", "plain", "digest"}
\* Keys of tenants and service accounts: none, of inactive owners only, of active ones.
TenantKeys == {"none", "inactive", "active"}
\* What Diagnostics of the store answers.
StoreKinds == {"memory", "postgres", "unversioned", "failing"}

Environments ==
    [production : BOOLEAN, loopback : BOOLEAN, localRuntime : BOOLEAN, remotePeer : BOOLEAN,
     override : BOOLEAN, adminKey : AdminKeys, tenantKey : TenantKeys, store : StoreKinds,
     assets : BOOLEAN, policies : BOOLEAN, circuitOpen : {FALSE}]

\* hasConfiguredAPIKeys: an error of ListTenants counts as no keys; inactive owners count.
hasConfiguredAPIKeys(e) ==
    e.adminKey # "none" \/ (e.store # "failing" /\ e.tenantKey # "none")

\* The parts of validateProductionStartup.
validateProductionAdminKeyFormat(e) == e.adminKey \in {"none", "digest"}

\* Mutant: the schema version of the store is not looked at.
validateProductionStartupLenient(e) ==
    e.production =>
      /\ validateProductionAdminKeyFormat(e) /\ hasConfiguredAPIKeys(e)
      /\ e.store \in {"postgres", "unversioned"} /\ e.assets /\ e.policies

validateProductionStartup(e) ==
    e.production =>
      /\ validateProductionAdminKeyFormat(e) /\ hasConfiguredAPIKeys(e)
      /\ e.store = "postgres" /\ e.assets /\ e.policies

\* A listener that is not on loopback needs keys, or an explicit choice that
\* production ignores.
validateBindSecurity(e) ==
    \/ e.loopback \/ hasConfiguredAPIKeys(e)
    \/ ~e.production /\ ((e.localRuntime /\ e.remotePeer) \/ e.override)

\* handleReadyz: the issues it reports.
ReadinessIssues(e) ==
    {i \in {"store", "schema", "persistence", "circuit", "policies", "auth", "assets"} :
       \/ i = "store" /\ e.store = "failing"
       \/ i = "schema" /\ e.store = "unversioned"
       \/ i = "persistence" /\ e.production /\ e.store = "memory"
       \/ i = "circuit" /\ e.circuitOpen
       \/ i = "policies" /\ ~e.policies
       \/ i = "auth" /\ e.production /\ ~hasConfiguredAPIKeys(e)
       \/ i = "assets" /\ e.production /\ ~e.assets}
Ready(e) == ReadinessIssues(e) = {}

\* localOperatorSessionEnabled for a request from the same host.
localOperatorSessionEnabled(e) ==
    /\ e.localRuntime /\ (e.loopback \/ e.remotePeer)
    /\ ~hasConfiguredAPIKeys(e) /\ e.store # "failing"

\* collectDoctorAuthReport, SharedAccessReady: keys of active owners only.
collectDoctorAuthReport(e) ==
    e.adminKey # "none" \/ (e.store # "failing" /\ e.tenantKey = "active")

\* inspectDoctorStoreAndAuth: the status of the store check.
inspectDoctorStore(e) ==
    CASE e.store \in {"memory", "failing"} -> "warn"
      [] e.store = "unversioned" -> "fail"
      [] OTHER -> "pass"

-----------------------------------------------------------------------------
\* Server.Start.
StartServer ==
    /\ srv = "created"
    /\ srv' = IF validateProductionStartup(env) /\ validateBindSecurity(env)
              THEN "serving" ELSE "refused"
    /\ UNCHANGED <<env, changed>>

\* The environment of a running server: keys come and go, the store fails,
\* assets are removed, circuits open and close.
Change ==
    /\ srv = "serving"
    /\ \/ \E k \in TenantKeys : env' = [env EXCEPT !.tenantKey = k]
       \/ env' = [env EXCEPT !.store = "failing"]
       \/ env' = [env EXCEPT !.assets = FALSE]
       \/ env' = [env EXCEPT !.circuitOpen = ~@]
    /\ env' # env /\ changed' = TRUE
    /\ UNCHANGED srv

QInit == env \in Environments /\ srv = "created" /\ changed = FALSE
QNext == StartServer \/ Change
QSpec == QInit /\ [][QNext]_qvars

-----------------------------------------------------------------------------
(* Properties.                                                              *)

\* A production server that was allowed to start is ready: whatever /readyz would
\* hold against the installation, the start-up checks have refused before.
StartedIsReady == srv = "serving" /\ env.production /\ ~changed => Ready(env)

\* A listener that other hosts reach without keys was chosen explicitly, and never
\* in production; there a local session without a key is not on offer either.
ExposureIsChosen ==
    srv = "serving" /\ ~changed =>
      /\ ~env.loopback /\ ~hasConfiguredAPIKeys(env) =>
            ~env.production /\ (env.override \/ (env.localRuntime /\ env.remotePeer))
      /\ env.production => ~localOperatorSessionEnabled(env)

\* When the doctor calls shared access ready, the server accepts a remote listener
\* outside of production and offers no session without a key; when it fails or
\* warns about the store, production does not start.
DoctorAgrees ==
    /\ collectDoctorAuthReport(env) =>
          /\ validateBindSecurity([env EXCEPT !.loopback = FALSE])
          /\ ~localOperatorSessionEnabled(env)
    /\ inspectDoctorStore(env) # "pass" => ~validateProductionStartup([env EXCEPT !.production = TRUE])

\* Start-up checks, /readyz and the doctor do not contradict each other: what was
\* let start in production is ready, a listener without keys was asked for, and
\* what the doctor approves the server accepts.
ReadinessIsHonest ==
  /\ StartedIsReady
  /\ ExposureIsChosen
  /\ DoctorAgrees
=============================================================================
