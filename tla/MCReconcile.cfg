SPECIFICATION FairSpec
CONSTANTS
  o1 = o1  o2 = o2  r1 = r1  s1 = s1  none = none
  None = none
  Orders = {o1}
  Signal <- SoloSignal
  Symbol <- SoloSymbol
  Side <- SoloSide
  Qty <- SoloQty
  MaxDay = 2
  Runs = {r1}
  Services = {s1}
  Ticks = {}
  MaxVersion = 6
INVARIANTS TypeOK InFlightIsOwned TerminalTruth
PROPERTIES FilledOrderSettles FilledUnknownResolves KeepsPromise
