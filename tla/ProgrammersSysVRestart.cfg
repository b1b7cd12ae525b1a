CONSTANTS
  NUM_PROGS = 2
  QUEUE_LIMIT = 10
  MAX_RUNS = 3
SPECIFICATION Spec
INVARIANTS
  GetTaskFindsOne
  ReviewerIsNotAuthor
