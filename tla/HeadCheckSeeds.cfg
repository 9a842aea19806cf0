SPECIFICATION HeadsSpec
CONSTANTS
  HeadBuilds = {1, 2}
  Nobody = 0
  LastPush = 2
  Withdrawn = FALSE
INVARIANTS
  CheckedIsCovered
CHECK_DEADLOCK FALSE
