SPECIFICATION FairSpec
CONSTANTS
  Slot = {fmex_stop}
  MaxSigints = 3
  MaxFrames = 2
  MaxPings = 2
INVARIANTS FramesInOrder KeepAlive ErrorOnce Attentive
PROPERTIES WindsDown QuestionCloses
CHECK_DEADLOCK FALSE
