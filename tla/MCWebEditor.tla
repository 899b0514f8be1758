----------------------------- MODULE MCWebEditor -----------------------------
(* A small instance of WebEditor for TLC. *)
EXTENDS WebEditor, TLC

\* Edits are interchangeable; no liveness is checked.
Symmetry == Permutations(Edits)
=============================================================================
