SPECIFICATION Spec
CONSTANTS
  NFILE = 4
  NOFILE = 2
  NPIPE = 2
  Procs = {p, q}
  Init0 = p
INVARIANTS
  RefCounts
  PipeEnds
  InodeRefs
CHECK_DEADLOCK FALSE
