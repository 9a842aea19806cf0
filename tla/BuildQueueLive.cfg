SPECIFICATION FairSpec
CONSTANTS
  b1 = b1
  b2 = b2
  r1 = r1
  Builds = {b1, b2}
  Asked = {b1}
  Repos = {r1}
  RepoOf <- MCRepoOf
  Slots = {1, 2, 3}
  BuildAttempts = 2
  MoreLinesMax = 1
  FaultKinds = {"crash", "expiry", "throw", "resize"}
  MaxFaults = 1
  SlowSends = FALSE
  NoBuild = NoBuild
PROPERTIES
  EveryBuildEnds
CHECK_DEADLOCK FALSE
