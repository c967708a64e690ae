SPECIFICATION Spec
CONSTANTS
  NPROC = 3
  Renamers = {0, 1}
  MaxSleep = 1
  IoTicks = 1
INVARIANTS
  LockExclusion
  NoStaleTick
