SPECIFICATION Spec
CONSTANTS
  Launches = 3
  Pids = {p1, p2}
  Tools = {t}
  MaxCrashes = 2
  AcceptMayFail = TRUE
INVARIANTS
  LiveKeepsItsFiles
  NewestSteadyIsFound
  NothingLeftBehind
PROPERTIES
  ConnectionsAreDecided
  DropReturns
CHECK_DEADLOCK FALSE
