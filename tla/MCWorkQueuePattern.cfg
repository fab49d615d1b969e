SPECIFICATION Spec
CONSTANTS
  MAX_QUEUE_SIZE = 2
  NUM_TASKS = 4
  Task <- MCTask
  Main = Main
  Producers <- MCProducers
  Consumers = {w1, w2, w3}
  NULL = NULL
INVARIANTS AcceptedOnce FreedOnlyWhenUnused AllRunAtExit
PROPERTY Terminates
