\* one worker (queue of two, share of one), three tenants, four jobs
CONSTANTS
  a1 = a1  a2 = a2  a3 = a3  b1 = b1  c1 = c1
  A = A  B = B  C = C
  None = None
  Tasks = {a1, a2, b1, c1}
  Tenants = {A, B, C}
  Workers = {w1}
  TenantOf <- MCTenantOf
SPECIFICATION FairSpec
CHECK_DEADLOCK FALSE
INVARIANTS
  TasksAreOwned
  QueueIsCounted
PROPERTIES
  ImplementsJobQueue
  ExecutorProgress
