CONSTANTS
  Requests = {r1, r2, r3}
  Capabilities = {a, b}
  NoCapabilities = none
  MaxRuns = 2
SPECIFICATION FairSpec
CHECK_DEADLOCK FALSE
INVARIANTS
  ServedAfterInitialize
  
PROPERTIES
  RunReturns
