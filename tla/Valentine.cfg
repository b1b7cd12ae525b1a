CONSTANTS
  f1 = f1
  f2 = f2
  f3 = f3
  g2 = g2
  Loggers = {g1}
  g1 = g1
  HEARTBEAT_INTERVAL = 2
  MAX_TIME = 9
  MAX_LEN = 2
SPECIFICATION Spec
INVARIANTS
  TypeOK
  LongestIsChosen
  LoggersAreWatched
PROPERTIES
  EveryFanIsAnswered
  ShutdownEndsServer
CONSTANTS
  Fans <- MCFans
  Registrars <- MCRegistrars
  Proposals <- MCProposals
