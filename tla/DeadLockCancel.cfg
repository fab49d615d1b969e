SPECIFICATION Spec
PROPERTY Part2Reached
CHECK_DEADLOCK FALSE
