SPECIFICATION EditorSpec
CONSTANTS
  Pages = {p1, p2}
  Reviewers = {p2}
  Edits = {e1, e2}
  MaxCommands = 3
  MaxEvents = 2
  MaxRecords = 1
SYMMETRY Symmetry
CHECK_DEADLOCK FALSE
INVARIANTS
  OverwriteHasCause
  OwnWritesSeen
  QuietTypingKept
