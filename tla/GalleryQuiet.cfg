CONSTANTS
  Visitors = {1, 2, 3}
  NUM_PAINTINGS = 2
  MAX_ATTEMPTS = 3
  MAX_UNREAD = 0
  MAX_VISITORS = 2
  MAX_PAINTING_VISITORS = 1
  MAX_CLIENTS = 3
SPECIFICATION FairQuietSpec
INVARIANTS
  AtMostMaxVisitors
  AtMostMaxViewers
  CountsMatchSlots
PROPERTIES
  EveryVisitEnds
