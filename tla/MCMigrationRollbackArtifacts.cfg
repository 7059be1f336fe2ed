\* an execution that fails, and its rollback
CONSTANTS
  Procs = {p1}
  N = 2
  MaxExecutes = 1
  MaxResumes = 0
  MaxRollbacks = 1
  ShutdownSource = TRUE
  VerifyBoot = TRUE
  Faults = TRUE
  Crashes = FALSE
  MayMatchNothing = FALSE
SPECIFICATION MSpec
CHECK_DEADLOCK FALSE
INVARIANTS
  RollbackRemovesArtifacts
