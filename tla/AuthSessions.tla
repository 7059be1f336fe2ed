---------------------------- MODULE AuthSessions ----------------------------
(***************************************************************************)
(* Authentication of API requests (internal/api/middleware.go,              *)
(* auth_session.go, auth_session_handler.go, the limiter of observability.go *)
(* and the credential lookup of internal/store/auth_lookup.go): requests    *)
(* with a key or a dashboard session, logins, logouts and revocations run   *)
(* concurrently with key rotations, deletions and restarts.                 *)
(*                                                                         *)
(* One custom tenant with its own key (owner Root) and one service account  *)
(* stand for all; the default tenant, which has no key, owns the local       *)
(* sessions.  A credential is its digest.  The registry of digests agrees     *)
(* with the tenant rows (StateStore!HashesRegistered), so cred is both.      *)
(***************************************************************************)
EXTENDS Naturals, FiniteSets, Sequences

CONSTANTS Backends,     \* the stores to check
          Account,      \* the service account
          Root,         \* the tenant's own key
          Hashes, None,
          Sessions,     \* identifiers (secrets) of dashboard sessions
          Requests,     \* concurrent requests
          TTL,          \* lifetime of a session
          Limit, Window, \* of the tenant rate limiter
          MaxTime,      \* bound: the clock
          MaxChanges,   \* bound: administrative changes and restarts
          MaxRequests   \* bound: requests in a behaviour

ASSUME AuthAssumption ==
    /\ Backends \subseteq {"memory", "postgres"} /\ Account # Root
    /\ None \notin Hashes \cup Sessions
    /\ TTL \in Nat \ {0} /\ Limit \in Nat \ {0} /\ Window \in Nat \ {0}
    /\ MaxTime \in Nat \ {0} /\ MaxChanges \in Nat /\ MaxRequests \in Nat

VARIABLES
    backend,
    now,        \* the clock
    tenant,     \* "active", "inactive" or "gone"
    cred,       \* owner -> digest (None: no such account)
    expiry,     \* when the service account expires (0: never)
    sessions,   \* session -> record in the server's memory, None when absent
    revoked,    \* session -> expiry of its revocation in memory (0: none)
    stored,     \* session -> expiry of its revocation in the store (0: none)
    bucket,     \* the tenant's rate bucket
    req,        \* request -> its progress
    changes, begun,
    acked,      \* history: sessions whose revocation was reported
    admitted    \* history: when requests passed the limiter

vars == <<backend, now, tenant, cred, expiry, sessions, revoked, stored, bucket,
          req, changes, begun, acked, admitted>>

Owners == {Root, Account}
Kind(o) == IF o = Root THEN "tenant" ELSE "service-account"

Idle == [kind |-> "none", step |-> "none"]
At(r, step) == req[r].step = step
Goto(r, step) == req' = [req EXCEPT ![r].step = step]
End(r) == req' = [req EXCEPT ![r] = Idle]

Registry == <<tenant, cred, expiry>>
Memory == <<sessions, revoked>>
Bounds == <<changes, begun>>
History == <<acked, admitted>>

\* The digests that authenticate somebody now.
Current == IF tenant = "gone" THEN {} ELSE {cred[o] : o \in Owners} \ {None}

\* serviceAccountUsable
serviceAccountUsable == expiry = 0 \/ now <= expiry
OwnerUsable(o) == tenant = "active" /\ (o = Account => serviceAccountUsable)

\* A request with the digest it stands on (the presented key's, or the one its
\* session is bound to).  History: fresh, whether that digest was current at some
\* moment of the request; dead, whether its session was revoked before it.
Started(kind, step, h, s) ==
    [kind |-> kind, step |-> step, hash |-> h, fresh |-> h \in Current,
     session |-> s, dead |-> s # None /\ (s \in acked \/ stored[s] > now),
     owner |-> None, attempts |-> <<>>, rec |-> None]

\* A secret that was never issued is refused at the first lookup, so only
\* issued ones are presented.
Issued == {s \in Sessions : sessions[s] # None \/ stored[s] # 0 \/ s \in acked}

\* tenantAuthMiddleware, with a key: X-API-Key is tried as both kinds of key,
\* X-Service-Account-Key as one.
KeyRequest == {[Started("key", "find", h, None) EXCEPT !.attempts = a] :
                  h \in Hashes, a \in {<<"tenant", "service-account">>, <<"service-account">>}}

\* createAuthSession: modes tenant and service-account.
createAuthSession == {[Started("login", "find", h, None) EXCEPT !.attempts = <<mode>>] :
                         h \in Hashes, mode \in {"tenant", "service-account"}}

\* createAuthSession: mode local.
createLocalSession == {Started("local", "keys", None, None)}

SessionOf(kind) ==
    {Started(kind, "lookup", IF sessions[s] = None THEN None ELSE sessions[s].hash, s) :
        s \in Issued}

\* tenantAuthMiddleware, with a session cookie.
SessionRequest == SessionOf("session")
deleteAuthSession == SessionOf("logout")
handleAuthSessionRevoke == SessionOf("revoke")

\* A request arrives; the requests in progress are interchangeable.
Begin ==
    /\ begun < MaxRequests /\ \E q \in Requests : req[q] = Idle
    /\ begun' = begun + 1
    /\ \E new \in KeyRequest \cup createAuthSession \cup createLocalSession
                \cup SessionRequest \cup deleteAuthSession \cup handleAuthSessionRevoke :
          req' = [req EXCEPT ![CHOOSE q \in Requests : req[q] = Idle] = new]
    /\ UNCHANGED <<backend, now, Registry, Memory, stored, bucket, changes, History>>

-----------------------------------------------------------------------------
(* Finding the owner of a key.                                              *)

\* The owner that was found answers the attempt, or the next attempt is made.
Answer(r, o) ==
    LET rest == Tail(req[r].attempts)
        found == o # None /\ Kind(o) = Head(req[r].attempts)
    IN  req' = [req EXCEPT ![r] =
                  IF found
                  THEN [@ EXCEPT !.owner = o,
                                 !.step = IF req[r].kind = "login" THEN "create" ELSE "confirm"]
                  ELSE IF rest = <<>> THEN Idle
                  ELSE [@ EXCEPT !.attempts = rest, !.step = "find"]]

HolderOf(h) == {o \in Owners : tenant # "gone" /\ cred[o] = h}
Rest == UNCHANGED <<backend, now, Registry, Memory, stored, bucket, Bounds, History>>

\* MemoryStore.LookupCredentialByHash: one critical section.
MemLookupCredential(r) ==
    /\ backend = "memory" /\ At(r, "find")
    /\ LET holders == {o \in HolderOf(req[r].hash) : OwnerUsable(o)}
       IN  IF holders = {} THEN Answer(r, None) ELSE \E o \in holders : Answer(r, o)
    /\ Rest

\* PostgresStore.LookupCredentialByHash: the registry row ...
PgLookupRegistry(r) ==
    /\ backend = "postgres" /\ At(r, "find")
    /\ IF HolderOf(req[r].hash) = {}
       THEN Answer(r, None)
       ELSE \E o \in HolderOf(req[r].hash) :
               req' = [req EXCEPT ![r].owner = o, ![r].step = "load"]
    /\ Rest

\* ... then the tenant, against which the digest is compared again.  A tenant
\* that is gone by now is an error: IsNotFound does not match "no rows".
PgLookupTenant(r) ==
    /\ At(r, "load")
    /\ LET o == req[r].owner IN
       IF tenant = "gone" THEN End(r)
       ELSE IF OwnerUsable(o) /\ cred[o] = req[r].hash THEN Answer(r, o)
       ELSE Answer(r, None)
    /\ Rest

\* lookupCredentialTenantIDs: the key is looked up once more; with one tenant
\* it names no other, and an owner that is gone by now names none.
ConfirmTenant(r) ==
    /\ At(r, "confirm")
    /\ \/ req' = [req EXCEPT ![r].step = "limit", ![r].attempts = <<>>]
       \/ backend = "postgres" /\ tenant = "gone" /\ End(r)
    /\ Rest

-----------------------------------------------------------------------------
(* The session manager.                                                     *)

Expired(rec) == rec.expires <= now

\* pruneLocked, given the revocations that are kept.
Pruned(rev) ==
    [s \in Sessions |-> IF sessions[s] = None \/ rev[s] > now \/ Expired(sessions[s])
                        THEN None ELSE sessions[s]]
Live(rev) == [s \in Sessions |-> IF rev[s] > now THEN rev[s] ELSE 0]

\* createRecord, for a record with a new secret.
createRecord(rec) ==
    \E s \in Sessions :
       /\ now + TTL <= MaxTime          \* bound: every session can expire
       /\ sessions[s] = None /\ stored[s] = 0 /\ s \notin acked
       /\ \A q \in Requests : req[q].kind # "none" => req[q].session # s
       /\ sessions' = [Pruned(Live(revoked)) EXCEPT ![s] = rec]
       /\ revoked' = Live(revoked)

\* CreateCredential: the session is bound to the digest that was presented,
\* whatever happened to the credential since it was looked up.
CreateCredential(r) ==
    /\ At(r, "create") /\ req[r].kind = "login"
    /\ createRecord([mode |-> Kind(req[r].owner), hash |-> req[r].hash, expires |-> now + TTL])
    /\ End(r)
    /\ UNCHANGED <<backend, now, Registry, stored, bucket, Bounds, History>>

\* localRuntimeOperatorPrincipal: refused when any key is configured
\* (hasConfiguredAPIKeys; tenants that cannot be listed count as no keys), then
\* (a second ListTenants) when an active custom tenant exists.
LocalNoKeys(r) ==
    /\ At(r, "keys")
    /\ \/ Current = {} /\ Goto(r, "fallback")
       \/ Current # {} /\ End(r)
       \/ backend = "postgres" /\ Goto(r, "fallback")
    /\ Rest

LocalFallback(r) ==
    /\ At(r, "fallback")
    /\ IF tenant = "active" THEN End(r) ELSE Goto(r, "create")
    /\ Rest

CreateLocal(r) ==
    /\ At(r, "create") /\ req[r].kind = "local"
    /\ createRecord([mode |-> "local", hash |-> None, expires |-> now + TTL])
    /\ End(r)
    /\ UNCHANGED <<backend, now, Registry, stored, bucket, Bounds, History>>

\* Lookup, LookupByPublicID: a revoked or expired record is removed; without a
\* record the request is refused (a logout then clears the cookie).
LookupSession(r) ==
    /\ At(r, "lookup")
    /\ LET s == req[r].session IN
       IF sessions[s] # None /\ revoked[s] <= now /\ ~Expired(sessions[s])
       THEN /\ req' = [req EXCEPT ![r].rec = sessions[s],
                       ![r].step = IF req[r].kind = "revoke" THEN "revoke" ELSE "recheck"]
            /\ UNCHANGED Memory
       ELSE /\ sessions' = [sessions EXCEPT ![s] = None]
            /\ revoked' = [revoked EXCEPT ![s] = IF @ > now THEN @ ELSE 0]
            /\ End(r)
    /\ UNCHANGED <<backend, now, Registry, stored, bucket, Bounds, History>>

\* MarkRevoked: prune, remember the revocation while the session could still
\* be presented, forget the session.
MarkRevoked(r) ==
    LET s == req[r].session
        rev == IF Expired(req[r].rec) THEN Live(revoked)
               ELSE [Live(revoked) EXCEPT ![s] = req[r].rec.expires]
    IN  /\ revoked' = rev
        /\ sessions' = [Pruned(Live(revoked)) EXCEPT ![s] = None]

\* LookupActive checks the revocations in memory once more ...
RecheckRevoked(r) ==
    /\ At(r, "recheck")
    /\ IF revoked[req[r].session] > now
       THEN MarkRevoked(r) /\ End(r)
       ELSE Goto(r, "stored") /\ UNCHANGED Memory
    /\ UNCHANGED <<backend, now, Registry, stored, bucket, Bounds, History>>

\* Mutant: only the revocations in memory count.
CheckStoredSkipped(r) ==
    /\ At(r, "stored")
    /\ Goto(r, IF req[r].kind = "logout" THEN "revoke" ELSE "principal")
    /\ UNCHANGED <<backend, now, Registry, Memory, stored, bucket, Bounds, History>>

\* ... and then the ones in the store; a store that fails is an error.
CheckStored(r) ==
    /\ At(r, "stored")
    /\ \/ IF stored[req[r].session] > now
          THEN MarkRevoked(r) /\ End(r)
          ELSE /\ Goto(r, IF req[r].kind = "logout" THEN "revoke" ELSE "principal")
               /\ UNCHANGED Memory
       \/ End(r) /\ UNCHANGED Memory
    /\ UNCHANGED <<backend, now, Registry, stored, bucket, Bounds, History>>

\* Mutant: the digest of the session is not compared with the current one.
SessionPrincipalTrusting(r) ==
    /\ At(r, "principal")
    /\ LET rec == req[r].rec
           o == IF rec.mode = "tenant" THEN Root ELSE Account
       IN  IF rec.mode = "local" \/ OwnerUsable(o)
           THEN Goto(r, "limit") ELSE Goto(r, "revoke")
    /\ Rest

\* principalFromTenantSession, principalFromServiceAccountSession and
\* localPrincipalFromSession.  A session whose credential was rotated, expired
\* or deactivated is revoked; a deleted tenant is an error in PostgreSQL.
SessionPrincipal(r) ==
    /\ At(r, "principal")
    /\ LET rec == req[r].rec
           o == IF rec.mode = "tenant" THEN Root ELSE Account
       IN  IF rec.mode = "local" THEN Goto(r, "limit")
           ELSE IF tenant = "gone" /\ backend = "postgres" THEN End(r)
           ELSE IF tenant # "gone" /\ OwnerUsable(o) /\ cred[o] = rec.hash
           THEN Goto(r, "limit")
           ELSE Goto(r, "revoke")
    /\ Rest

-----------------------------------------------------------------------------
(* Revoke: store, audit, memory; each of the first two may fail.            *)

RevokeStored(r) ==
    /\ At(r, "revoke")
    /\ \/ /\ stored' = [s \in Sessions |->
                IF s = req[r].session THEN req[r].rec.expires
                ELSE IF backend = "memory" /\ stored[s] <= now THEN 0 ELSE stored[s]]
          /\ Goto(r, "mark")
       \/ End(r) /\ UNCHANGED stored
    /\ UNCHANGED <<backend, now, Registry, Memory, bucket, Bounds, History>>

\* An audit event that cannot be saved ends the revocation half-way: stored,
\* but not marked.
RevokeMarked(r) ==
    /\ At(r, "mark") /\ End(r)
    /\ \/ /\ MarkRevoked(r)
          /\ acked' = IF req[r].kind \in {"logout", "revoke"}
                      THEN acked \cup {req[r].session} ELSE acked
       \/ UNCHANGED <<Memory, acked>>
    /\ UNCHANGED <<backend, now, Registry, stored, bucket, Bounds, admitted>>

-----------------------------------------------------------------------------
(* The tenant rate limiter, behind authentication.                          *)

\* History: the requests admitted in the last window, and the n-th one of now.
Recent == {a \in admitted : a.time + Window > now}
Admitting ==
    Recent \cup {[time |-> now, nth |-> 1 + Cardinality({a \in admitted : a.time = now})]}

\* Mutant: every request restarts the window.
RateLimitSliding(r) ==
    /\ At(r, "limit")
    /\ bucket' = [start |-> now, count |-> 1]
    /\ admitted' = Admitting
    /\ Goto(r, "served")
    /\ UNCHANGED <<backend, now, Registry, Memory, stored, Bounds, acked>>

\* tenantRateLimiter.allow: a fixed window that starts with its first request.
RateLimit(r) ==
    /\ At(r, "limit")
    /\ LET fresh == bucket.start = 0 \/ now - bucket.start >= Window
           b == IF fresh THEN [start |-> now, count |-> 0] ELSE bucket
       IN  IF b.count >= Limit
           THEN End(r) /\ UNCHANGED <<bucket, admitted>>
           ELSE /\ bucket' = [b EXCEPT !.count = @ + 1]
                /\ admitted' = Admitting
                /\ Goto(r, "served")
    /\ UNCHANGED <<backend, now, Registry, Memory, stored, Bounds, acked>>

\* The handler runs and the request ends.
Finish(r) == At(r, "served") /\ End(r) /\ Rest

-----------------------------------------------------------------------------
(* Everything else that happens.                                            *)

Change == /\ changes < MaxChanges /\ changes' = changes + 1

\* History: the digests that are current now are fresh for the requests.
Refresh == req' = [r \in Requests |->
              IF req[r] = Idle THEN Idle
              ELSE [req[r] EXCEPT !.fresh = @ \/ req[r].hash \in {cred'[o] : o \in Owners}]]

\* handleServiceAccounts and rotation (StateStore): a new key for an owner.
RotateKey(o, h) ==
    /\ Change /\ tenant # "gone" /\ h \notin Current
    /\ cred' = [cred EXCEPT ![o] = h]
    /\ Refresh
    /\ UNCHANGED <<backend, now, tenant, expiry, Memory, stored, bucket, begun, History>>

CreateTenant(h) ==
    /\ Change /\ tenant = "gone"
    /\ tenant' = "active" /\ cred' = [o \in Owners |-> IF o = Root THEN h ELSE None]
    /\ expiry' = 0
    /\ Refresh
    /\ UNCHANGED <<backend, now, Memory, stored, bucket, begun, History>>

DeleteTenant ==
    /\ Change /\ tenant # "gone"
    /\ tenant' = "gone" /\ cred' = [o \in Owners |-> None]
    /\ UNCHANGED <<backend, now, expiry, Memory, stored, bucket, req, begun, History>>

\* The process dies: sessions, revocations in memory and the buckets are lost,
\* and with the memory store everything is.
Restart ==
    /\ Change
    /\ req' = [r \in Requests |-> Idle]
    /\ sessions' = [s \in Sessions |-> None]
    /\ revoked' = [s \in Sessions |-> 0]
    /\ bucket' = [start |-> 0, count |-> 0]
    /\ admitted' = {}
    /\ IF backend = "memory"
       THEN /\ stored' = [s \in Sessions |-> 0]
            /\ tenant' = "gone" /\ cred' = [o \in Owners |-> None]
       ELSE UNCHANGED <<stored, tenant, cred>>
    /\ UNCHANGED <<backend, now, expiry, begun, acked>>

Tick ==
    /\ now < MaxTime /\ now' = now + 1
    /\ UNCHANGED <<backend, Registry, Memory, stored, bucket, req, Bounds, History>>

\* Mutant: the sweeper drops the revocations only.
SweepRevocations ==
    /\ \E s \in Sessions : revoked[s] \in 1 .. now
    /\ revoked' = Live(revoked)
    /\ UNCHANGED <<backend, now, Registry, sessions, stored, bucket, req, Bounds, History>>

\* StartSweeper, SweepExpired
SweepExpired ==
    /\ \/ \E s \in Sessions : sessions[s] # None /\ Expired(sessions[s])
       \/ \E s \in Sessions : revoked[s] \in 1 .. now
    /\ revoked' = Live(revoked) /\ sessions' = Pruned(Live(revoked))
    /\ UNCHANGED <<backend, now, Registry, stored, bucket, req, Bounds, History>>

Init ==
    /\ backend \in Backends /\ now = 1
    /\ \/ /\ tenant \in {"active", "inactive"}
          /\ cred \in [Owners -> Hashes \cup {None}]
          /\ cred[Root] = (CHOOSE h \in Hashes : TRUE) /\ cred[Account] # cred[Root]
          /\ expiry \in IF cred[Account] = None THEN {0} ELSE {0, 1}
       \/ tenant = "gone" /\ cred = [o \in Owners |-> None] /\ expiry = 0
    /\ sessions = [s \in Sessions |-> None]
    /\ revoked = [s \in Sessions |-> 0] /\ stored = [s \in Sessions |-> 0]
    /\ bucket = [start |-> 0, count |-> 0]
    /\ req = [r \in Requests |-> Idle]
    /\ changes = 0 /\ begun = 0 /\ acked = {} /\ admitted = {}

Step(r) ==
    \/ MemLookupCredential(r) \/ PgLookupRegistry(r) \/ PgLookupTenant(r)
    \/ ConfirmTenant(r) \/ CreateCredential(r)
    \/ LocalNoKeys(r) \/ LocalFallback(r) \/ CreateLocal(r)
    \/ LookupSession(r) \/ RecheckRevoked(r) \/ CheckStored(r) \/ SessionPrincipal(r)
    \/ RevokeStored(r) \/ RevokeMarked(r)
    \/ RateLimit(r) \/ Finish(r)

Next ==
    \/ Begin
    \/ \E r \in Requests : Step(r)
    \/ \E o \in Owners, h \in Hashes : RotateKey(o, h)
    \/ \E h \in Hashes : CreateTenant(h)
    \/ DeleteTenant \/ Restart \/ Tick \/ SweepExpired

\* The clock advances, the sweeper's ticker fires, and a request's goroutine
\* runs: each of its calls returns or times out.
Fairness == /\ WF_vars(Tick) /\ WF_vars(SweepExpired)
            /\ \A r \in Requests : WF_vars(Step(r))

Spec == Init /\ [][Next]_vars /\ Fairness

-----------------------------------------------------------------------------
(* Properties.                                                              *)

Record == [mode : {"tenant", "service-account", "local"}, hash : Hashes \cup {None},
           expires : Nat]

\* The rows of tenant and account, the sessions in memory, both records of
\* revocations and the rate bucket have their types; the bucket's count never
\* passes the limit, because allow refuses before it counts.
AuthTypeOK ==
    /\ backend \in Backends /\ now \in 1 .. MaxTime
    /\ tenant \in {"active", "inactive", "gone"}
    /\ cred \in [Owners -> Hashes \cup {None}] /\ expiry \in Nat
    /\ sessions \in [Sessions -> Record \cup {None}]
    /\ revoked \in [Sessions -> Nat] /\ stored \in [Sessions -> Nat]
    /\ bucket.count \in 0 .. Limit /\ acked \subseteq Sessions

Served(r) == req[r].step = "served"

\* A request is served only with a credential that was current at some moment
\* of the request: a key rotated or deleted before it began, and every session
\* bound to such a key, is refused, whatever was looked up when (the digest is
\* compared again after each read).
ServedCredentialIsCurrent ==
    \A r \in Requests : Served(r) =>
       \/ req[r].fresh
       \/ req[r].kind = "session" /\ req[r].rec.mode = "local"

\* No request is served from a session whose revocation was stored or reported
\* before the request began, also when the revocation failed half-way and after
\* a restart; the exception is a session that expires while the request is on
\* its way, because its revocation expires at the same moment.
RevokedIsNeverServed ==
    \A r \in Requests : Served(r) /\ req[r].dead => Expired(req[r].rec)

\* A revocation that was reported has removed the session for good: no lookup
\* that was under way brings it back.
RevocationIsFinal == \A s \in acked : sessions[s] = None

\* Revoke holds against everything that was under way: a revoked session is not
\* served and does not come back, in this process or the next, although store,
\* audit and memory are updated one after the other.
RevocationHolds ==
  /\ AuthTypeOK
  /\ RevokedIsNeverServed
  /\ RevocationIsFinal

\* A fixed window admits at most two budgets in any span of one window.
AdmissionsPerWindow ==
    Cardinality(Recent) <= 2 * Limit

\* Every session leaves the server's memory in the end: it is revoked, or it
\* expires and is looked up or swept.
SessionsExpire == \A s \in Sessions : (sessions[s] # None) ~> (sessions[s] = None)
=============================================================================
