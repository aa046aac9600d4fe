SPECIFICATION FairSpec
CONSTANTS
  MaxRx = 2
  MaxInput = 2
INVARIANTS ClientContracts
PROPERTIES QuietAfterStop ShutdownDrainsOrDeaf
CHECK_DEADLOCK FALSE
