CONSTANTS
  Maps = {tools}
  Logs = {templates, tasks}
  Stored = {tasks}
  MaxItems = 3
  PageSizes = {0, 1, 2, 6, 7}
  Word = 8
SPECIFICATION RegistryFairSpec
CHECK_DEADLOCK FALSE
INVARIANTS
  AllSeenOnce
PROPERTIES
  ReadingEnds
