SPECIFICATION ServerSpec
CONSTANTS
  b1 = b1
  b2 = b2
  r1 = r1
  Builds = {b1, b2}
  Asked = {b1}
  Repos = {r1}
  RepoOf <- MCRepoOf
  Slots = {1, 2, 3}
  BuildAttempts = 2
  MoreLinesMax = 1
  FaultKinds = {"crash", "expiry", "throw"}
  MaxFaults = 1
  SlowSends = TRUE
  NoBuild = NoBuild
  h1 = h1
  h2 = h2
  HeadBuilds = {h1, h2}
  Nobody = Nobody
  LastPush = 2
  Withdrawn = FALSE
  Shares = {"s1", "s2"}
  Uploaders = {"u1", "u2"}
  Servers = {"site", "builder"}
  Bodies = {0, 1}
  NotFound = 0
  NoBody = 9
  Ttl = 2
  NegativeFor = 1
  KeptAfter = 0
  CacheSeconds = 4
  Longest = 1
SYMMETRY SameBuilds
INVARIANTS
  TypeOK
  OneHandlerPerBuild
  ServerTypeOK
  RefsNotAhead
  NoObjectIsLeft
PROPERTIES
  OnlyOwnerEnds
  KeptIsCurrent
  AnswersAreFresh
CHECK_DEADLOCK FALSE
