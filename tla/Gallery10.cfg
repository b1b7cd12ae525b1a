CONSTANTS
  Visitors = {1, 2}
  NUM_PAINTINGS = 1
  MAX_ATTEMPTS = 3
  MAX_UNREAD = 0
  MAX_VISITORS = 1
  MAX_PAINTING_VISITORS = 1
  MAX_CLIENTS = 2
SPECIFICATION ShutdownSpec
PROPERTIES
  ShutdownSendsAllHome
