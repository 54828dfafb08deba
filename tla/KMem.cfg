\* The kernel heap on a machine of nine pages, the counter of free pages one
\* too high, exact or two too low.
SPECIFICATION FairSpec
CONSTANTS
  FisPages = 9
  UWrap = 32
  BootFrames <- MCBootFrames
  Drifts <- MCDrifts
  BootTable = 1
  VFirst = 4
  MaxPages = 18
  TableEntries = 3
  AllocNum = 2
  Sizes <- MCSizes
INVARIANTS
  TypeOK
  FramesExclusive
  BitmapMatchesPaging
  CounterConserved
  HeldBlocksIntact
  NothingLeaks
  DescriptorCountsExact
  LostOnlyByTables
PROPERTIES
  HeldPagesStayPut
  HeapPromise
  CallsReturn
CHECK_DEADLOCK FALSE
