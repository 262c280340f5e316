SPECIFICATION FairSpec
CONSTANTS
  Shares = 2
  MaxSells = 1
  MaxPositions = 1
  MaxCrashes = 1
PROPERTIES SubmittedExitResolves
\* The position is sold and nothing is left to do.
CHECK_DEADLOCK FALSE
