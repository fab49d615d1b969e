SPECIFICATION Spec
CONSTANTS
  NUM_CLIENTS = 2
  MAX_CLIENTS = 2
  MAX_REQUESTS_PER_CLIENT = 2
  FdLimit = 4
INVARIANTS TableMatchesSockets NoUseAfterFree EchoIsRequest NoStuckBacklog
PROPERTIES ClientsServed ProgramEnds
CHECK_DEADLOCK FALSE
