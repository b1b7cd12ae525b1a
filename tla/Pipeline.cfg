CONSTANTS
  BUF = 5
  CHUNK = 3
  QUEUE_LIMIT = 2
SPECIFICATION Spec
INVARIANTS
  OutputIsAnswer
  DoneWhenItReturns
  NoBrokenPipe
PROPERTIES
  EveryRunEnds
CONSTANTS
  Texts <- MCTexts
  Garbage <- MCGarbage
CHECK_DEADLOCK FALSE
