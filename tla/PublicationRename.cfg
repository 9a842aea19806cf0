SPECIFICATION BothSpec
CONSTANTS
  b1 = b1
  b2 = b2
  old = old
  new = new
  Names = {old, new}
  Current = new
  Builds = {b1, b2}
  NameOf <- MCTwo
  MaxIndex = 3
  MaxHead = 0
  Attempts = 1
  Events = {"rename"}
  RenameMidBuild = TRUE
  Private = FALSE
  None = None
INVARIANTS
  ReportHasIndex
CHECK_DEADLOCK FALSE
