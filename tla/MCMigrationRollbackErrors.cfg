\* a rollback that meets errors, then a resumption
CONSTANTS
  Procs = {p1}
  N = 1
  MaxExecutes = 1
  MaxResumes = 1
  MaxRollbacks = 1
  ShutdownSource = TRUE
  VerifyBoot = TRUE
  Faults = TRUE
  Crashes = FALSE
  MayMatchNothing = FALSE
SPECIFICATION MSpec
CHECK_DEADLOCK FALSE
INVARIANTS
  CompleteMeansMigrated
