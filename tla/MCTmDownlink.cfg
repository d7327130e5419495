SPECIFICATION FairSpec
CONSTANTS
  Chunks = 3
  TmBufferLength = 2
  MaxRequests = 4
  MaxFaults = 4
  MaxAir = 3
INVARIANTS DownlinkInv NothingLostOnBoard
PROPERTIES HeldForGood DeliveredAtLeastOnce StoredEventuallySent
