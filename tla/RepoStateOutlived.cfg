SPECIFICATION StateSpec
CONSTANTS
  job1 = job1
  job2 = job2
  ca = ca
  cb = cb
  cc = cc
  StateJobs = {job1, job2}
  NoJob = NoJob
  Nothing = Nothing
  Chunks = {ca, cb, cc}
  CacheFiles = 2
  Caches <- MCCaches
  StateRounds = 3
  RestoreMayOutlive = TRUE
  CacheMayOutlast = FALSE
  ForgetBeside = FALSE
PROPERTIES
  RestoredIsWhole
CHECK_DEADLOCK FALSE
