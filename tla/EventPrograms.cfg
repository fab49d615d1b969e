SPECIFICATION AllSpec
CONSTANTS
  N = 3
  Masks = {{}, {0}, {1}, {2}, {0, 1}, {0, 2}, {1, 2}, {0, 1, 2}}
  MaxCommands = 2
  Invalid = Invalid
  None = None
  Torn = Torn
  MAX_TIMERS = 2
  NumTimers = 2
  StopAfter = 2
  MaxThreads = 3
  MaxFire = 3
INVARIANTS ReportIsTrue NoOverwriteUnderReader NoOrphanTimer
PROPERTIES BroadcastCompletes EndsOrHandlerOverLock
CHECK_DEADLOCK FALSE
