SPECIFICATION FairSpec
CONSTANTS
  eps = eps
  opr = opr
  hk = hk
  sched = sched
  battv = battv
  batti = batti
  Senders <- MCSenders
  Callers = {hk, sched}
  Hk = hk
  Sched = sched
  Sensors <- MCSensors
  Values = {0, 1}
  Initial = 0
  MaxCalls <- MCCalls
  MaxLosses = 1
  MaxLates = 1
INVARIANTS RequestInv LagBounded InStep
PROPERTY MutexGivenBack
CHECK_DEADLOCK FALSE
