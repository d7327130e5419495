SPECIFICATION FairSpec
CONSTANTS
  Telecommands <- AllKinds
  FifoLength = 2
  MaxTcs = 3
  MaxHkReports = 1
INVARIANTS RoutingInv OneReportPerCommand
PROPERTY HkReportHandedOver
CHECK_DEADLOCK FALSE
