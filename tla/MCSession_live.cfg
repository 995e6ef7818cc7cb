CONSTANTS
  Calls = {c1}
  Workers = {w1}
  Readers = {r1}
  RespIds <- MCRespIds
SPECIFICATION FairSpec
CHECK_DEADLOCK FALSE
PROPERTIES
  CloseReturns
  OnClosedFires
  AnsweredWhileOpen
