\* two operations at once on one migration of one workload
CONSTANTS
  p1 = p1  p2 = p2
  Procs = {p1, p2}
  N = 1
  MaxExecutes = 1
  MaxResumes = 1
  MaxRollbacks = 1
  ShutdownSource = TRUE
  VerifyBoot = FALSE
  Faults = TRUE
  Crashes = TRUE
  MayMatchNothing = TRUE
SYMMETRY ProcSymmetry
SPECIFICATION MSpec
CHECK_DEADLOCK FALSE
INVARIANTS
  RecordIsConsistent
