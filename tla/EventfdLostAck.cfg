SPECIFICATION Spec
CONSTANTS
  N = 3
  Masks = {{}, {0}, {1}, {2}, {0, 1}, {0, 2}, {1, 2}, {0, 1, 2}}
  MaxCommands = 1
  Invalid = Invalid
  None = None
  Torn = Torn
INVARIANT AckTracksResponses
CHECK_DEADLOCK FALSE
