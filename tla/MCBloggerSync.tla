---------------------------- MODULE MCBloggerSync ----------------------------
(* A small instance of BloggerSync for TLC. *)
EXTENDS BloggerSync, TLC

\* Runs, workers and requests are interchangeable; no liveness is checked.
Symmetry == Permutations(Runs) \cup Permutations(Workers) \cup Permutations(Requests)
=============================================================================
