SPECIFICATION Spec
CONSTANTS
  b1 = b1
  b2 = b2
  r1 = r1
  Builds = {b1}
  Asked = {b1}
  Repos = {r1}
  RepoOf <- MCRepoOf
  Slots = {1, 2, 3}
  BuildAttempts = 2
  MoreLinesMax = 0
  FaultKinds = {"crash"}
  MaxFaults = 0
  SlowSends = FALSE
  NoBuild = NoBuild
PROPERTIES
  FullFailureEndsDone
CHECK_DEADLOCK FALSE
