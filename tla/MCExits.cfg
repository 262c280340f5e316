SPECIFICATION Spec
CONSTANTS
  Shares = 2
  MaxSells = 2
  MaxPositions = 2
  MaxCrashes = 1
INVARIANTS TypeOK OneWorkingSell NoOversell
PROPERTIES ReleasedExitIsDead
\* The position is sold and nothing is left to do.
CHECK_DEADLOCK FALSE
