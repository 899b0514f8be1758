------------------------ MODULE MCBloggerConnections ------------------------
(* Small instances of BloggerConnections for TLC. *)
EXTENDS BloggerConnections, TLC

Symmetry ==
  Permutations(Websites) \cup Permutations(Connections)
    \cup Permutations(States) \cup Permutations(Requests)
=============================================================================
