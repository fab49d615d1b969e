CONSTANTS
  MAX_CPUS = 1
  online_cpus = 1
  iterations = 2
  Period = 1
  test_duration = 1
SPECIFICATION Spec
INVARIANT StopIsFinal
CHECK_DEADLOCK FALSE
