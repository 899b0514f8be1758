SPECIFICATION RateFairSpec
CONSTANTS
  Attempts = {r1, r2, r3}
  MAX = 2
  MaxCount = 7
CHECK_DEADLOCK FALSE
INVARIANTS
  AttemptsBounded
PROPERTY WindowEnds
