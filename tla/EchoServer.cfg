SPECIFICATION FairSpec
CONSTANTS
  Endpoint = {e1, e2}
  MaxConns = 3
INVARIANTS
  StopReachesAll
PROPERTIES
  NoAcceptAfterStop
  ShutdownDrains
CHECK_DEADLOCK FALSE
