SPECIFICATION Spec
CONSTANTS
  ed = ed
  wr = wr
  rv = rv
  se = se
  Users = {ed, wr}
  RoleOf <- MCRoleOf
  Requests = {r1, r2}
  Candidates = {c1}
  NoUser = NoUser
  NoCandidate = NoCandidate
  UpdateFields = {{"general"}}
  MaxVersion = 5
  MaxLag = 1
  MaxLead = 1
SYMMETRY Symmetry
CHECK_DEADLOCK FALSE
INVARIANTS
  RevisionHistory
  LawfulHistory
  ReviewBinding
  CandidateProvenance
PROPERTIES
  ImplementsLifecycle
