SPECIFICATION FairSpec
CONSTANTS
  N = 3
  Obc = 2
  Ssms <- MCSsms
  HkFifoLength = 2
  MaxRounds = 3
  MaxLosses = 1
  MaxLates = 2
INVARIANTS HousekeepingInv BacklogShrinks
PROPERTIES NeverOlder RoundsEnd
CHECK_DEADLOCK FALSE
