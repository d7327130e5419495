SPECIFICATION FairSpec
CONSTANTS
  Reporters = {"sched", "mem"}
  Asserts <- MCAsserts
  Reports <- MCReports
  SsmAsserts <- MCSsmAsserts
  Commands <- MCCommands
  FifoLength = 1
  AssertPolls = 18
  FumbleLimit = 1
  FifoLimit = 2
  TimeoutLimit = 1
  MaxInputs = 2
  MaxExits = 3
INVARIANTS FdirInv SafeModeHoldsTasks QueuedAsGiven LowReadOnce
PROPERTY HighErrorsReachFdir
CHECK_DEADLOCK FALSE
