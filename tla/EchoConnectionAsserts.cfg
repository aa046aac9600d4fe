SPECIFICATION Spec
CONSTANTS
  Ticks = 2
  MaxRx = 1
  Greeting = 1
INVARIANT RxAssertsHold
CHECK_DEADLOCK FALSE
