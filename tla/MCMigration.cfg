\* two workloads, one execution, two resumptions, two rollbacks, every fault and crash
CONSTANTS
  Procs = {p1}
  N = 2
  MaxExecutes = 1
  MaxResumes = 2
  MaxRollbacks = 2
  ShutdownSource = TRUE
  VerifyBoot = TRUE
  Faults = TRUE
  Crashes = TRUE
  MayMatchNothing = FALSE
SPECIFICATION MSpec
CHECK_DEADLOCK FALSE
INVARIANTS
  CheckpointsAreBacked
  
  SourcePowerRecoverable
  RollbackIsFaithful
