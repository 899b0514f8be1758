SPECIFICATION Spec
CONSTANTS
  Requests = {r1, r2}
  Keys = {k1, k2}
  NoKey = NoKey
  Modes = {"LIVE", "MOCK"}
  Enabled = {"PUBLISH", "DELETE"}
  Failures = {"refuse", "lose", "hide", "external", "crash"}
  MaxSyncs = 1
SYMMETRY Symmetry
CHECK_DEADLOCK FALSE
INVARIANTS
  KeyMakesOnePost
  SecondDraftHasCause
PROPERTIES
  ReconciledIsNoDraft
  EndedStaysEnded
