------------------------ MODULE MCContentPublication ------------------------
(* A small instance of ContentPublication for TLC; no symmetry, for it is not sound with *)
(* liveness. *)
EXTENDS ContentPublication
=============================================================================
