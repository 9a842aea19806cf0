SPECIFICATION EngineSpec
CONSTANTS
  EngineKeys = {1, 2}
  Askers = {1, 2, 3}
  DiskFiles = 1
INVARIANTS
  LoadedOnce
CHECK_DEADLOCK FALSE
