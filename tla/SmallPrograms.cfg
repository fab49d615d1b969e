SPECIFICATION AllSpec
CONSTANTS
  Background = {b1, b2, b3}
  MaxWork = 2
  LogWorkers = {w1, w2}
  Entries = 2
  MQ_MAX_MESSAGES = 2
  MaxLines = 2
  BufferSize = 3
  MaxTyped = 4
  FileReads = 2
  MaxInput = 2
CHECK_DEADLOCK FALSE
INVARIANTS CountIsExact CycleOnlyInPart1 AllLogged
PROPERTIES DaemonMainEnds OrderingAndTimeoutsEnd Part1EndsOrDeadlocks RelayEnds NoRunawayChild OpensMeet LinesAreLogged StopEndsReader CtrlCEnds
