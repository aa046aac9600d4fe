SPECIFICATION FairSpec
CONSTANTS
  MaxRx = 2
  Greeting = 1
  MaxAccepts = 2
INVARIANTS
  SentInOrder
PROPERTIES
  NoChatAfterStop
  StopReleases
  ShutdownDrainsOrLeaks
CHECK_DEADLOCK FALSE
