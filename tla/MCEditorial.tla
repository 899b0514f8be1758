---------------------------- MODULE MCEditorial ----------------------------
(* Small instances of Editorial for TLC. *)
EXTENDS Editorial, TLC

CONSTANTS ed, wr, rv, se

MCRoleOf == [ u \in Users |-> CASE u = ed -> "EDITOR" [] u = wr -> "WRITER"
                                [] u = rv -> "REVIEWER" [] OTHER -> "SEO_MANAGER" ]

Symmetry == Permutations(Requests) \cup Permutations(Candidates)
=============================================================================
