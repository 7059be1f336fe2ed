---------------------------- MODULE MCStateStore ----------------------------
(***************************************************************************)
(* Instance of StateStore for TLC.  Requests and digests are interchangeable *)
(* and no checked property is a liveness property.                          *)
(***************************************************************************)
EXTENDS StateStore, TLC

Interchangeable == Permutations(Clients) \cup Permutations(Hashes)
=============================================================================
