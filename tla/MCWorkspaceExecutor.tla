------------------------- MODULE MCWorkspaceExecutor -------------------------
(***************************************************************************)
(* Instances of WorkspaceExecutor for TLC.  With one worker the queue      *)
(* holds two requests and a tenant's share is one; a third tenant is       *)
(* needed to find the queue full without being over its own share.         *)
(***************************************************************************)
EXTENDS WorkspaceExecutor

CONSTANTS a1, a2, a3, b1, c1, A, B, C

MCTenantOf ==
  [t \in Tasks |-> CASE t \in {a1, a2, a3} -> A [] t = b1 -> B [] OTHER -> C]
=============================================================================
