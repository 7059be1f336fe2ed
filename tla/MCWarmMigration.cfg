\* disks of up to three cells in blocks of two, two cutovers, every fault
CONSTANTS
  c0 = c0  c1 = c1
  Contents = {c0, c1}
  BlockSize = 2
  MaxSize = 3
  MaxRounds = 2
  MaxCutovers = 2
  AutoRollback = TRUE
  Faults = TRUE
SPECIFICATION WSpec
SYMMETRY CellSymmetry
CHECK_DEADLOCK FALSE
INVARIANTS
  FinalCopyIsComplete
  StoredProgressIsTrue
PROPERTIES
  CopyIsNeverSpoiled
  BothRunByRollback
