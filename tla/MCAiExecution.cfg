SPECIFICATION Spec
CONSTANTS
  Profiles = {p1}
  SiteRequests = {s1}
  NoProfile = NoProfile
  Requests = {r1, r2}
  Keys = {k1}
  Probes = {t1, t2}
  Scopes = {p1}
  NoKey = NoKey
  SYSTEM = SYSTEM
  MonthlyLimit = 1
  Tokens = 1
  MaxRetries = 1
  Failures = {"prompt", "rotate", "provider", "database", "crash"}
  MaxWrites = 2
  MaxSiteSteps = 1
  MaxMonth = 2
SYMMETRY Symmetry
CHECK_DEADLOCK FALSE
INVARIANTS
  UsageBounded
  InProgressHasOwner
  OutcomesAgree
PROPERTIES
  CredentialKept
