-------------------------- MODULE MCDiscoveryCalls --------------------------
(* Instance of DiscoveryCalls for TLC: two sources behind one endpoint, one job *)
(* that discovers both and one that discovers the second only.                  *)
EXTENDS DiscoveryCalls, TLC
CONSTANTS east, west, site, j1, j2
Order == (j1 :> <<east, west>>) @@ (j2 :> <<west>>)
Shared == (east :> site) @@ (west :> site)
=============================================================================
