SPECIFICATION Spec
CONSTANTS
  Symbols = {A}
  Workers = {w1}
  Tick = Tick
  None = None
  Shares = 2
  MaxPositions = 1
  MaxEntries = 1
  MaxBuys = 1
  MaxCrashes = 0
PROPERTIES PartFilledStaysOpen
