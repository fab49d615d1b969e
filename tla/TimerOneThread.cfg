SPECIFICATION Spec
CONSTANTS
  MAX_TIMERS = 2
  NumTimers = 2
  StopAfter = 2
  MaxThreads = 2
  MaxFire = 2
INVARIANT OneThreadPerTimer
CHECK_DEADLOCK FALSE
