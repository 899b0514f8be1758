----------------------------- MODULE MCAiExecution -----------------------------
(* A small instance of AiExecution, with Sites, for TLC. *)
EXTENDS AiExecution, TLC

Symmetry == Permutations(Requests) \cup Permutations(Probes)
=============================================================================
