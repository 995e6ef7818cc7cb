CONSTANTS
  s1 = s1
  Sessions = {s1}
  Posts = {p1, p2}
  Frames <- MCFrames
  SessionOf <- MCSessionOf
SPECIFICATION FairSpec
CHECK_DEADLOCK FALSE
INVARIANTS
  AwaiterReachable
  AnsweredInKind
PROPERTIES
  PromiseSetOnce
  AnsweredWhileOpen
  CloseReachesRun
