CONSTANTS
  Hints <- MCHints
  NoHint = none
  IntMax = 80000
  MaxEvents = 2
  MaxBreaks = 2
  MaxReplies = 1
SPECIFICATION FairSpec
CHECK_DEADLOCK FALSE
INVARIANTS
  Resumed
  PauseAsTold
PROPERTIES
  AllArrive
