SPECIFICATION FairSpec
CONSTANTS
  NPROC = 3
  Renamers = {}
  MaxSleep = 2
  IoTicks = 2
INVARIANTS
  SchedulerMasked
  RunningIsCurrent
  NoLostWakeup
  TrapReturnMasked
PROPERTIES
  RunnableRuns
  SleeperRuns
