CONSTANTS
  Calls = {c1}
  Workers = {}
  Readers = {r1}
  RespIds <- MCRespIds
SPECIFICATION FairSpec
CHECK_DEADLOCK FALSE
PROPERTIES
  RequestsSettle
