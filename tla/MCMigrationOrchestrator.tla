----------------------- MODULE MCMigrationOrchestrator -----------------------
(***************************************************************************)
(* Instances of MigrationOrchestrator for TLC.  Operations on a migration  *)
(* differ in nothing but their name, so those that run at once may be      *)
(* exchanged; the properties checked with this symmetry are invariants.    *)
(***************************************************************************)
EXTENDS MigrationOrchestrator, TLC

ProcSymmetry == Permutations(Procs)
=============================================================================
