--------------------------- MODULE MCWorkspaceJobs ---------------------------
(***************************************************************************)
(* Instances of WorkspaceJobs for TLC: jobs of one workspace of one tenant *)
(***************************************************************************)
EXTENDS WorkspaceJobs

CONSTANTS A

MCTenantOf == [t \in Tasks |-> A]
=============================================================================
