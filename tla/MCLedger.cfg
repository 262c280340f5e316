SPECIFICATION Spec
CONSTANTS
  Procs = {p1, p2}
  Orders = {o1, o2}
  MaxVersion = 2
  None = None
INVARIANTS OneWinner EveryMoveHasItsEvent MoveLeavesNoLock
PROPERTIES MovesCommitAlone ImplementsLedger
