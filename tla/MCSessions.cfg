SPECIFICATION Spec
CONSTANTS
  Users = {u1}
  Sessions = {s1, s2}
  Requests = {r1, r2}
  NoUser = NoUser
  NoSession = NoSession
  MaxToken = 3
  MaxVersion = 2
  MaxPassword = 3
SYMMETRY Symmetry
CHECK_DEADLOCK FALSE
INVARIANTS
  CurrentUnlessLate
  TokensSpentOnceInOrder
PROPERTIES
  RevocationIsFinal
  AccessEnds
