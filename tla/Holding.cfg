SPECIFICATION Spec
CONSTANTS
  forkBuild = forkBuild
  parentBuild = parentBuild
  parentCount = parentCount
  otherBuild = otherBuild
  fork = fork
  parent = parent
  other = other
  Jobs = {forkBuild, parentBuild, parentCount, otherBuild}
  Repos = {fork, parent, other}
  HomeOf <- MCHomeOf
  ParentOf <- MCParentOf
  Mb <- MCMb
  Budget = 4
  Pruner = Pruner
  None = None
INVARIANTS
  TypeOK
  FitsOrAlone
  CloneStays
PROPERTIES
  InOrder
  EveryJobEnds
CHECK_DEADLOCK FALSE
