SPECIFICATION Spec
CONSTANTS
  Users = {u1, u2}
  Workspaces = {w1, w2}
  Memberships = {m1, m2, m3}
  Requests = {r1, r2}
  GivenRoles = {"OWNER", "ADMIN"}
  NoUser = NoUser
  NoWorkspace = NoWorkspace
  NoMembership = NoMembership
SYMMETRY Symmetry
CHECK_DEADLOCK FALSE
INVARIANTS
  OneMembership
PROPERTIES
  OwnersLostOnlyStale
