CONSTANTS
  Calls = {c1, c2}
  Workers = {w1}
  Readers = {r1}
  RespIds <- MCRespIds
SPECIFICATION Spec
SYMMETRY CallSymmetry
CHECK_DEADLOCK FALSE
INVARIANTS
  SettledOnce
  NoRequestLost
  SafeTeardown
PROPERTIES
  RefinesContract
