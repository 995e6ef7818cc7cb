CONSTANTS
  Requests = {f, g}
  Answers = {}
  Lengths = {0, 2}
  MaxFrame = 2
  Room = 2
  Chunk = 2
SPECIFICATION FairSpec
CHECK_DEADLOCK FALSE
INVARIANTS
  HangUpLosesNothing
PROPERTIES
  ChannelToServer
  Arrives
  CloseReturns
