SPECIFICATION AllSpec
CONSTANTS
  MAX_CPUS = 3
  online_cpus = 1
  iterations = 2
  Period = 2
  test_duration = 1
  increments = 3
  NumChildren = 3
  Rounds = 3
  alignment = 64
  ARRAY_SIZE = 7
  NUM_ITERATIONS = 2
  Granule = 16
  PtrSize = 8
  DoubleSize = 8
  MaxAddress = 320
  pin = GPIO1_28
  Others = {q1, q2}
  Runs = {r1, r2}
  Blinks = 2
  NS = 100
  INTERVAL = 40
  ITERATIONS = 3
  MinStart = 10
  LongHalf = 214
  Lateness = {0, 12, 110, 220}
  StartTimes = {0, 60, 99}
INVARIANTS StopsPromptly CountsAtEnd ZombiesAreSeen ForkErrorReported UnalignedInside OtherPinsKept DarkUnlessLit StatisticsAreTrue
CHECK_DEADLOCK FALSE
