SPECIFICATION QFairSpec
CONSTANTS
  MAX_QUEUE_SIZE = 2
  Producers = {p1, p2}
  Consumers = {c1, c2}
  Task = {k1, k2, k3, k4}
  NULL = NULL
INVARIANTS RingInv FIFO NoLostWakeup
PROPERTIES ImplementsChannel CallsReturn
