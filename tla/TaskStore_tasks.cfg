CONSTANTS
  Tasks = {t1, t2}
  Waiters = {q1}
  MaxConcurrent = 1
SPECIFICATION FairSpec
CHECK_DEADLOCK FALSE
INVARIANTS
  OneTerminalNote
  StoreOutlivesWorkers
PROPERTIES
  WaitersWake
  ShutdownEnds
