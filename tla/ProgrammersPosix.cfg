CONSTANTS
  NUM_PROGS = 3
  QUEUE_LIMIT = 3
  MAX_RUNS = 1
SPECIFICATION PosixFairSpec
INVARIANTS
  NeverBlocksInQueue
PROPERTIES
  ImplementsFairCirculation
