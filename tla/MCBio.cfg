SPECIFICATION FairSpec
CONSTANTS
  p = p
  q = q
  r = r
  x = x
  y = y
  z = z
  None = None
  Procs = {p, q, r}
  Blocks = {x, y, z}
  Zero = z
  NBUF = 2
  MaxRetries = 2
  QueueSize = 3
  Reads <- MCReadsApart
  Writes <- MCWritesApart
  HalfOf <- MCHalves
INVARIANTS OneBufferPerBlock DriverExclusive UpdatesSurvive
PROPERTY DiskComesFree
