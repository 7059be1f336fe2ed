--------------------------- MODULE MCWarmMigration ---------------------------
\* Instances of WarmMigration for TLC.
EXTENDS WarmMigration, TLC

CONSTANTS c0, c1

\* The code never looks into a cell.
CellSymmetry == Permutations(Contents)
=============================================================================
