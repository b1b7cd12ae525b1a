CONSTANTS
  NUM_PROGS = 3
  MAX_TASKS = 3
SPECIFICATION Spec
INVARIANTS
  TypeOK
  MutualExclusion
  NoLostUpdate
  SemaphoreCountsQueue
  NoTaskDropped
  ReviewerIsNotAuthor
  OneTaskPerProgrammer
PROPERTIES
  ImplementsCirculation
