CONSTANTS
  Frames = {f1, f2}
  Ids = {a, b}
  NoId = none
SPECIFICATION FairSpec
CHECK_DEADLOCK FALSE
INVARIANTS
  NothingRunsAfterClose
  AskedOncePerBatch
PROPERTIES
  QueuedIsPosted
  StreamFollowsId
  CloseReturns
