SPECIFICATION FairSpec
CONSTANTS
  Symbols = {A}
  Workers = {w1, w2}
  Tick = Tick
  None = None
  Shares = 2
  MaxPositions = 1
  MaxEntries = 2
  MaxBuys = 3
  MaxCrashes = 1
INVARIANTS TypeOK DailyCapHolds
PROPERTIES NoSecondBuy FilledBuyIsTracked
