CONSTANTS
  Visitors = {1, 2}
  NUM_PAINTINGS = 1
  MAX_ATTEMPTS = 2
  MAX_UNREAD = 2
  MAX_VISITORS = 1
  MAX_PAINTING_VISITORS = 1
  MAX_CLIENTS = 2
SPECIFICATION FairFailureSpec
INVARIANTS
  OneSlotPerConnection
PROPERTIES
  GoneAreCleanedUp
