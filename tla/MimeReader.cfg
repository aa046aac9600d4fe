SPECIFICATION FairSpec
CONSTANTS
  Letter = {"x", "cr"}
  MaxDocLen = 2
  MaxDocs = 2
  MaxChunks = 8
  HeaderSizes = {2, 5, 11, 20}
  FirstGrow = 4
  Grow = 40
  RxSize = 40
INVARIANTS ReadsKept PartsAreDocs
PROPERTY Finishes
CHECK_DEADLOCK FALSE
