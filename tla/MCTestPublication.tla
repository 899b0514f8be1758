-------------------------- MODULE MCTestPublication --------------------------
(* Small instances of TestPublication for TLC. *)
EXTENDS TestPublication, TLC

Symmetry == Permutations(Requests) \cup Permutations(Keys)
=============================================================================
