CONSTANTS
  p1 = p1
  p2 = p2
  p3 = p3
  Procs = {p1, p2, p3}
  MAX_COUNT = 2
SPECIFICATION Spec
INVARIANTS
  MembersAreCounted
  NothingLeftBehind
PROPERTIES
  SignalEndsProcess
CHECK_DEADLOCK FALSE
