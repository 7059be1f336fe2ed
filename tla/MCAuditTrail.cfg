\* two events, three failing saves, one restart, disk faults and crashes
CONSTANTS
  e1 = e1  e2 = e2
  Events = {e1, e2}
  MaxOutages = 3
  MaxStarts = 2
  DiskFaults = TRUE
  Crashes = TRUE
SPECIFICATION AFairSpec
CHECK_DEADLOCK FALSE
INVARIANTS
  RecordedEventsAreKept
PROPERTIES
  AuditProgress
