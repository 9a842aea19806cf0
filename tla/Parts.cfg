SPECIFICATION PartsSpec
CONSTANTS
  job1 = job1
  job2 = job2
  ca = ca
  cb = cb
  cc = cc
  StateJobs = {job1, job2}
  NoJob = NoJob
  Nothing = Nothing
  Chunks = {ca, cb, cc}
  CacheFiles = 2
  Caches <- MCCaches
  StateRounds = 5
  RestoreMayOutlive = FALSE
  CacheMayOutlast = FALSE
  ForgetBeside = FALSE
  pa = pa
  pb = pb
  pc = pc
  si1 = si1
  si2 = si2
  StorePacks = {pa, pb, pc}
  NoPack = NoPack
  Requests = {"r1"}
  IndexOf <- MCIndexOf
  NoIndexId = NoIndexId
  MemoFor = 2
  MaxSecond = 3
  MaxNotices = 1
  SameStamp = FALSE
  A = A
  B = B
  Commits = {1, 2, 3, 4, 5, 6, 7}
  NoCommit = NoCommit
  Paths = {A, B}
  NoPath = NoPath
  Lines <- MCLines
  NoLine = NoLine
  NoFile = NoFile
  NoOwnership = NoOwnership
  Parents <- MCParents
  Tree <- MCTree
  Squeezed <- MCSqueezed
  Settings = {"all", "some"}
  PassThrough <- MCPassThrough
  Blamed <- MCBlamed
  Counts = 2
  Pulls = {1, 2}
  PageSizes = {1, 2}
  ReviewsRead = 9
  LastSecond = 4
  MaxHooks = 2
  SameSecond = FALSE
  Gone = FALSE
  EngineKeys = {1, 2}
  Askers = {1, 2}
  DiskFiles = 2
INVARIANTS
  PartsTypeOK
  StateIsStored
  LocalIsHeld
  CacheNotReplaced
  AnswersAreCurrent
  AnsweredUnlessReplaced
  OwnedAsBlamed
  CompleteIsWhole
  KeptThrough
  LastWord
  FilesAreCounted
  NoCellIsLeft
PROPERTIES
  RestoredIsWhole
  GoesOn
SYMMETRY SamePacks
CHECK_DEADLOCK FALSE
