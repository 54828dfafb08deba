\* The kernel heap beside a processor that keeps a translation: a freed page
\* that is mapped again is reached where it was.
SPECIFICATION TlbSpec
CONSTANTS
  FisPages = 9
  UWrap = 32
  BootFrames <- MCBootFrames
  Drifts <- MCExact
  BootTable = 1
  VFirst = 4
  MaxPages = 18
  TableEntries = 3
  AllocNum = 2
  Sizes <- MCSizes
INVARIANTS
  UseReachesMapping
CHECK_DEADLOCK FALSE
