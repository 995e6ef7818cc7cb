CONSTANTS
  Threads = {owner, other}
  Connector = owner
  Disconnectors = {owner}
  Initializers = {other}
  Registrar = other
  Methods = {sampling}
  Notes = {updated}
  MaxSessions = 2
SPECIFICATION ClientSpec
CHECK_DEADLOCK FALSE
INVARIANTS
  FlagTellsState
  HandlersAgree
  NobodyLeftBehind
PROPERTIES
  InitializedAfterAnswer
