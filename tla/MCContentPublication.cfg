SPECIFICATION FairSpec
CONSTANTS
  Requests = {r1, r2}
  Keys = {k1, k2}
  NoKey = NoKey
  Failures = {"refuse", "lose", "external", "elsewhere", "database", "crash"}
  MaxVersion = 5
  AheadTo = {"DRAFT"}
CHECK_DEADLOCK FALSE
INVARIANTS
  KeyCreatesOnce
  JournalCoversBlogger
  BindingHonest
  SecondDraftHasCause
PROPERTY ReservationEnds
