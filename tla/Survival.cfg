SPECIFICATION SurvivalSpec
CONSTANTS
  People = {ann}
  LastVersion = 2
  LastTip = 2
  LastAttempt = 1
  Handlers = {h1, h2}
  NoHandler = NoHandler
  AskedMost = 1
  FaultsMost = 1
INVARIANTS
  SurvivalTypeOK
  CountsAreOfHead
PROPERTIES
  CountsEnd
CHECK_DEADLOCK FALSE
