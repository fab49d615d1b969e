SPECIFICATION Spec
CONSTANTS
  Runs = {r1}
  Blinks = 2
INVARIANT ToggleFindsState
CHECK_DEADLOCK FALSE
