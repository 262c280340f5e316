SPECIFICATION FairSpec
CONSTANTS
  Procs = {p1, p2, p3}
  Inodes = {i1, i2, i3, i4}
  None = None
INVARIANTS OwnsPath MutualExclusion
PROPERTIES ImplementsSingleRun LockIsGranted
