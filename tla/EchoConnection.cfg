SPECIFICATION FairSpec
CONSTANTS
  Ticks = 3
  MaxRx = 2
  Greeting = 1
INVARIANTS
  ContractsKept
  QueueIsUnsentSuffix
  BufferStable
  NoChatAfterStop
  DeadlineArmed
PROPERTIES
  QuietAfterStop
  FrozenAfterFailedWrite
  SessionEnds
  Implements
CHECK_DEADLOCK FALSE
