SPECIFICATION FairSpec
CONSTANTS
  NPages = 7
  Reserved = {3}
  MaxRun = 3
INVARIANTS
  NoneSharedNoneLost
PROPERTIES
  Returns
  PageSetSpec
CHECK_DEADLOCK FALSE
