SPECIFICATION FairSpec
CONSTANTS
  MaxFrames = 2
  MaxPings = 2
INVARIANTS FramesInOrder
PROPERTIES FailureWindsDown StopEndsOrForgotten
CHECK_DEADLOCK FALSE
