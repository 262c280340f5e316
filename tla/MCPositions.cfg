\* Two ticks over one position of two shares: out through a partial and a full exit, a crash.
SPECIFICATION FairSpec
CONSTANTS
  Ticks = {t1, t2}
  Shares = 2
  MaxSells = 2
  MaxCrashes = 1
INVARIANTS TypeOK WorkingIsOwned ReservedIsHeld FillsBookedOnce
PROPERTIES ClosesWhatIsSold FilledExitIsBooked
CHECK_DEADLOCK FALSE
