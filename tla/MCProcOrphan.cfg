SPECIFICATION Spec
CONSTANTS
  NPROC = 3
  MaxPid = 4
  Sigs = {}
  Wants <- MCOnlyWait
  Groups = {}
  MaxSignals = 0
INVARIANT OwnChildrenOnly
CHECK_DEADLOCK FALSE
