SPECIFICATION SitesSpec
CONSTANTS
  Profiles = {p1, p2, p3}
  SiteRequests = {s1, s2}
  NoProfile = NoProfile
SYMMETRY Symmetry
CHECK_DEADLOCK FALSE
INVARIANTS
  OneDefault
PROPERTIES
  InactiveDefaultHasCause
