-------------------------------- MODULE MCSites --------------------------------
(* A small instance of Sites for TLC. *)
EXTENDS Sites, TLC

Symmetry == Permutations(Profiles) \cup Permutations(SiteRequests)
=============================================================================
