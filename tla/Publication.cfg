SPECIFICATION BothSpec
CONSTANTS
  b1 = b1
  b2 = b2
  old = old
  new = new
  Names = {old, new}
  Current = new
  Builds = {b1, b2}
  NameOf <- MCTwo
  MaxIndex = 3
  MaxHead = 1
  Attempts = 2
  Events = {"rename", "crash", "storage"}
  RenameMidBuild = FALSE
  Private = FALSE
  None = None
SYMMETRY SameBuilds
INVARIANTS
  TypeOK
  PackIsThere
  ReportHasIndex
  NothingLeaks
PROPERTIES
  ImplementsStore
  QuickKeepsLines
  NeverBack
CHECK_DEADLOCK FALSE
