SPECIFICATION Spec
CONSTANTS
  Backends = {"memory", "postgres"}
  Tenants = {default, acme}
  DefaultTenant = default
  Accounts = {ci}
  Root = root
  Hashes = {h1, h2}
  None = none
  MigrationIDs = {m1, m2}
  WorkspaceIDs = {w1}
  JobIDs = {j1}
  MaxSnapshots = 1
  MaxMigrations = 1
  Clients = {c1, c2}
  MaxCalls = 3
  MaxCrashes = 1
SYMMETRY Interchangeable
CHECK_DEADLOCK FALSE
INVARIANTS
  CredentialsAreRegistered
  StraysAreRaced
  QuotaOvershoot
  
PROPERTIES
  RegistryRefined
