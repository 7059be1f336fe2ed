\* two jobs, deadlines, aborted cancel requests and one restart
CONSTANTS
  j1 = j1  j2 = j2
  A = A
  Tasks = {j1, j2}
  Tenants = {A}
  TenantOf <- MCTenantOf
  Capacity = 4
  Share = 2
  Slots = 2
  JobTimeouts = TRUE
  CancelRequests = TRUE
  ClientAborts = TRUE
  MaxRestarts = 1
SPECIFICATION JFairSpec
CHECK_DEADLOCK FALSE
INVARIANTS
  JobRecordsAreTrue
  
PROPERTIES
  TerminalIsFinal
  
