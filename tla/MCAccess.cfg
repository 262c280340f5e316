SPECIFICATION Spec
CONSTANTS
  Procs = {p1, p2}
  None = None
  Calls = {"READ"}
  Interval <- Intervals
  LockTimeout = 1
  TokenTimeout = 1
  Depth = 3
  Skew = 0
  Retries = 1
  Backoff = 1
  Lifetime = 3
  MaxTime = 3
  MaxFaults = 2
SYMMETRY ProcSymmetry
INVARIANTS TypeOK SlotsAreSpaced TokensArePaced QueueIsBelieved
PROPERTIES NobodyIsStarved
\* The clock ends while processes sleep.
CHECK_DEADLOCK FALSE
