SPECIFICATION FairSpec
CONSTANTS
  NPROC = 3
  MaxPid = 3
  Sigs = {"KILL", "STOP", "CONT", "INT"}
  Wants <- MCWants
  Groups = {0}
  MaxSignals = 2
INVARIANTS
  NoMissedChild
PROPERTIES
  StopsUntilContinued
  SignalsActed
  KillReachesBlocked
CHECK_DEADLOCK FALSE
