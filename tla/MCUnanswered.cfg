SPECIFICATION Spec
CONSTANTS
  o1 = o1  o2 = o2  r1 = r1  s1 = s1  none = none
  None = none
  Orders = {o1, o2}
  Signal <- PairSignal
  Symbol <- PairSymbol
  Side <- PairSide
  Qty <- PairQty
  MaxDay = 1
  Runs = {r1}
  Services = {}
  Ticks = {}
  MaxVersion = 5
INVARIANTS UnansweredOrderBlocksOrders
