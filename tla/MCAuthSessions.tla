--------------------------- MODULE MCAuthSessions ---------------------------
(* Instance of AuthSessions for TLC. *)
EXTENDS AuthSessions
=============================================================================
