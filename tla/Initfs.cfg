\* The initial file system over thirteen sets of modules and six sizes of heap.
SPECIFICATION Spec
CONSTANTS
  NEntries = 8
  EntrySize = 5
  PageSize = 42
  BlockSize = 10
  ModuleSets <- MCModuleSets
  Rooms <- MCRooms
  HeapUsed = 1
  Requests <- MCRequests
  Leftovers <- MCLeftovers
INVARIANTS
  TypeOK
  MountWritesOwn
  FoundWhereItIs
  NothingElseLost
CHECK_DEADLOCK FALSE
