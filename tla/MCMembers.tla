----------------------------- MODULE MCMembers -----------------------------
(* Small instances of Members for TLC. *)
EXTENDS Members, TLC

Symmetry ==
  Permutations(Users) \cup Permutations(Workspaces)
    \cup Permutations(Memberships) \cup Permutations(Requests)
=============================================================================
