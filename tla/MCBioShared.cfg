SPECIFICATION Spec
CONSTANTS
  p = p
  q = q
  r = r
  x = x
  y = y
  z = z
  None = None
  Procs = {p, q}
  Blocks = {x, z}
  Zero = z
  NBUF = 2
  MaxRetries = 2
  QueueSize = 3
  Reads <- MCReadsShared
  Writes <- MCWritesShared
  HalfOf <- MCHalvesShared
INVARIANT UpdatesSurvive
