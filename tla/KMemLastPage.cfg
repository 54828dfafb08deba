\* The last descriptor page of a chain is never searched.
SPECIFICATION Spec
CONSTANTS
  FisPages = 9
  UWrap = 32
  BootFrames <- MCBootFrames
  Drifts <- MCExact
  BootTable = 1
  VFirst = 4
  MaxPages = 18
  TableEntries = 3
  AllocNum = 2
  Sizes <- MCSizes
INVARIANTS
  FreedBlocksForgotten
CHECK_DEADLOCK FALSE
