SPECIFICATION FairSpec
CONSTANTS
  Reporters = {"sched"}
  Asserts = {}
  Reports <- MCReports
  SsmAsserts = {}
  Commands = {}
  FifoLength = 1
  AssertPolls = 18
  FumbleLimit = 1
  FifoLimit = 1
  TimeoutLimit = 1
  MaxInputs = 1
  MaxExits = 1
PROPERTY LowErrorsGetQueued
