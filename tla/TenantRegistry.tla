--------------------------- MODULE TenantRegistry ---------------------------
(***************************************************************************)
(* What every state store promises of tenants and their credentials        *)
(* (internal/store/credentials.go and the tenant operations of the Store    *)
(* interface): a registry that is changed by one create, update or delete   *)
(* at a time, in which no credential ever has two owners.  The in-memory    *)
(* store does each operation under its mutex; the PostgreSQL store does it   *)
(* in several statements (StateStore).                                      *)
(*                                                                         *)
(* A tenant is the function that gives each of its owners (the tenant       *)
(* itself, Root, and its service accounts) the hash of its credential.      *)
(* HashAPIKey is injective here: equal hashes are equal keys.               *)
(***************************************************************************)
CONSTANTS Tenants,        \* tenant identifiers
          DefaultTenant,  \* DefaultTenantID, which cannot be removed
          Accounts,       \* service account identifiers
          Root,           \* the owner "the tenant itself", not an account
          Hashes,         \* credential digests
          None            \* no digest / no tenant

VARIABLE tenants          \* tenant -> its credentials, None when absent

Owners == Accounts \cup {Root}
Credentials == [Owners -> Hashes \cup {None}]

NoCredentials == [o \in Owners |-> None]

\* tenantCredentialOwners: the digests that a tenant's owners hold.
tenantCredentialHashes(cred) == {cred[o] : o \in Owners} \ {None}

\* validateCredentialUniquenessWithinTenant
validateWithinTenant(cred) ==
    \A o, p \in Owners : cred[o] # None /\ cred[o] = cred[p] => o = p

\* validateCredentialUniqueness: against the other tenants only.
validateCredentialUniqueness(all, t, cred) ==
    /\ validateWithinTenant(cred)
    /\ \A u \in Tenants \ {t} :
          all[u] # None =>
             tenantCredentialHashes(all[u]) \cap tenantCredentialHashes(cred) = {}

\* Only the default tenant is created without a credential of its own:
\* handleAdminTenants generates a key when the request brings none, and
\* CreateTenant replaces the default tenant by defaultTenant().
InitialCredentials(t) ==
    IF t = DefaultTenant THEN {NoCredentials}
    ELSE {[NoCredentials EXCEPT ![Root] = h] : h \in Hashes}

CreateTenant(t, cred) ==
    /\ tenants[t] = None
    /\ validateCredentialUniqueness(tenants, t, cred)
    /\ tenants' = [tenants EXCEPT ![t] = cred]

UpdateTenant(t, cred) ==
    /\ tenants[t] # None
    /\ validateCredentialUniqueness(tenants, t, cred)
    /\ tenants' = [tenants EXCEPT ![t] = cred]

DeleteTenant(t) ==
    /\ t # DefaultTenant
    /\ tenants[t] # None
    /\ tenants' = [tenants EXCEPT ![t] = None]

\* ensureTenant: the first save for the default tenant inserts it.
EnsureDefault ==
    /\ tenants[DefaultTenant] = None
    /\ tenants' = [tenants EXCEPT ![DefaultTenant] = NoCredentials]

\* A process that keeps its tenants in memory loses them when it restarts.
Forget ==
    tenants' = [t \in Tenants |-> IF t = DefaultTenant THEN NoCredentials ELSE None]

Unique(all) ==
    \A t, u \in Tenants : \A o, p \in Owners :
       (/\ all[t] # None /\ all[u] # None
        /\ all[t][o] # None /\ all[t][o] = all[u][p]) => t = u /\ o = p

RegistryInit ==
    /\ tenants \in [Tenants -> Credentials \cup {None}]
    /\ Unique(tenants)

RegistryNext ==
    \/ \E t \in Tenants : \E cred \in Credentials :
          CreateTenant(t, cred) \/ UpdateTenant(t, cred)
    \/ \E t \in Tenants : DeleteTenant(t)
    \/ EnsureDefault
    \/ Forget

RegistrySpec == RegistryInit /\ [][RegistryNext]_tenants

RegistryTypeOK == tenants \in [Tenants -> Credentials \cup {None}]

\* No credential has two owners, in one tenant or in two: the digest that a
\* request brings names one principal (validateCredentialUniqueness).
CredentialHasOneOwner == Unique(tenants)
=============================================================================
