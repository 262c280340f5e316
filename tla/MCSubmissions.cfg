SPECIFICATION ReleaseSpec
CONSTANTS
  o1 = o1  o2 = o2  o3 = o3  r1 = r1  r2 = r2  none = none
  None = none
  Orders = {o1, o2, o3}
  Signal <- TradeSignal
  Symbol <- TradeSymbol
  Side <- TradeSide
  Qty <- TradeQty
  MaxDay = 1
  Runs = {r1, r2}
  Services = {}
  Ticks = {}
  MaxVersion = 5
SYMMETRY NameSymmetry
INVARIANTS EarlierOrdersAreSeen EarlierBuysAreHeld OneOrderPerSignal HaltStopsOrders UnknownBlocksOrders
