SPECIFICATION FairSpec
CONSTANTS
  MaxPush = 0
  MaxStop = 1
  MaxPop = 2
PROPERTY PopAfterStopFails
CHECK_DEADLOCK FALSE
