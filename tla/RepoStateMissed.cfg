SPECIFICATION StateSpec
CONSTANTS
  job1 = job1
  job2 = job2
  ca = ca
  cb = cb
  cc = cc
  StateJobs = {job1, job2}
  NoJob = NoJob
  Nothing = Nothing
  Chunks = {ca, cb, cc}
  CacheFiles = 2
  Caches <- MCCaches
  StateRounds = 2
  RestoreMayOutlive = FALSE
  CacheMayOutlast = FALSE
  ForgetBeside = FALSE
INVARIANTS
  SavedIsStored
CHECK_DEADLOCK FALSE
