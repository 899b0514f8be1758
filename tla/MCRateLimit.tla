---------------------------- MODULE MCRateLimit ----------------------------
(* Three attempts at a time for TLC; no symmetry, the property is a liveness one. *)
EXTENDS RateLimit
=============================================================================
