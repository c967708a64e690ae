SPECIFICATION MCSpec
CONSTANTS
  Procs = {p1, p2}
  NINODES = 5
  a = a
  b = b
  d = d
  Elems = {a, b, d}
  Requests <- TreeRequests
  MaxCalls = 3
SYMMETRY Alike
INVARIANTS
  NamesCounted
  RefsExact
  NoDeadlock
  ClimbSound
CHECK_DEADLOCK FALSE
