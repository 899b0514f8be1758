SPECIFICATION Spec
CONSTANTS
  Websites = {w1, w2}
  Connections = {c1, c2, c3}
  States = {s1, s2, s3}
  Sites = {b1}
  Requests = {r1, r2}
  NoWebsite = NoWebsite
  NoConnection = NoConnection
  NoState = NoState
  NoSite = NoSite
SYMMETRY Symmetry
CHECK_DEADLOCK FALSE
INVARIANTS
  OneConnectionInUse
  StateUsedOnce
  SiteAttachedOnce
PROPERTIES
  RevokedIsLeftAlone
