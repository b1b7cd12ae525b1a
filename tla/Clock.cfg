CONSTANTS
  r1 = r1
  r2 = r2
  w1 = w1
  w2 = w2
  None = None
  Readers = {r1, r2}
  Writers = {w1, w2}
  MAX_STARTED = 3
  MAX_KILLED = 1
SPECIFICATION Spec
INVARIANTS
  TypeOK
  TokensConserved
  LinesMixNeighbours
PROPERTIES
  SignalledGoesHome
CHECK_DEADLOCK FALSE
