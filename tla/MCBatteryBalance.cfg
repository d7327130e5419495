SPECIFICATION FairSpecAll
CONSTANTS
  Byte = 3
  Hours = 3
  Minutes = 2
  GroundValues = {1, 2}
  MaxEvents = 1
  Word = 7
  MAX_SCHED_COMMANDS = 5
  MaxCommands = 2
  CommandTimes <- MCCommandTimes
  EpsInterval = 0
INVARIANTS TimedInv AlwaysDue
PROPERTIES FrozenInSafeMode BalancesWhileShort LongIntervalEndsIt
