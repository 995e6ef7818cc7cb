CONSTANTS
  Frames = {n1, n2, n3}
  Streams = {g1, g2}
SPECIFICATION FairSpec
CHECK_DEADLOCK FALSE
PROPERTIES
  OneChannel
  StreamsLeave
  QueueIsServed
