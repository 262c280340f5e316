SPECIFICATION Spec
CONSTANTS
  Shares = 2
  MaxSells = 2
  MaxPositions = 2
  MaxCrashes = 0
PROPERTIES PartialSellStaysOpen
\* The position is sold and nothing is left to do.
CHECK_DEADLOCK FALSE
