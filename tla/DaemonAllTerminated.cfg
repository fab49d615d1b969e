SPECIFICATION Spec
CONSTANTS
  Background = {b1, b2, b3}
  MaxWork = 2
CHECK_DEADLOCK FALSE
INVARIANT AllTerminated
