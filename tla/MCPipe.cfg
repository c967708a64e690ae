SPECIFICATION FairSpec
CONSTANTS
  Procs = {p, q}
  Creator = p
  PIPESIZE = 2
  Wrap = 4
  Bytes = {a, b}
  MaxIO = 3
INVARIANTS
  SleepersJustified
  EndsHeld
PROPERTIES
  StreamSpec
  HangupReturns
CHECK_DEADLOCK FALSE
