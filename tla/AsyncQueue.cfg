SPECIFICATION FairSpec
CONSTANTS
  MaxPush = 3
  MaxStop = 2
  MaxPop = 3
INVARIANTS
  HandlerIsSafe
  OneAnswer
  NoLostWakeup
PROPERTIES
  PopIsServed
  Implements
CHECK_DEADLOCK FALSE
