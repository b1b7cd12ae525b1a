CONSTANTS
  NUM_PROGS = 2
  MAX_TASKS = 50
SPECIFICATION FairSpec
PROPERTIES
  ImplementsFairCirculation
