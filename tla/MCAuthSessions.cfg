SPECIFICATION Spec
CONSTANTS
  Backends = {"memory", "postgres"}
  Account = ci
  Root = root
  Hashes = {h1, h2}
  None = none
  Sessions = {s1}
  Requests = {r1, r2}
  TTL = 2
  Limit = 1
  Window = 2
  MaxTime = 3
  MaxChanges = 1
  MaxRequests = 3
CHECK_DEADLOCK FALSE
INVARIANTS
  ServedCredentialIsCurrent
  RevocationHolds
  
PROPERTIES
  SessionsExpire
