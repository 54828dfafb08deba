\* Memory areas on a machine of fourteen pages.
SPECIFICATION Spec
CONSTANTS
  FisPages = 14
  TableEntries = 8
  LowPages = 4
  ImagePages = 1
  KernelEntry = 5
  AreaPages = 1
  DirPages = 2
  KernelSizes <- MCKernelSizes
  TaskSizes <- MCTaskSizes
  Descriptors = 4
  MaxHeld = 2
  MaxTaskBlocks = 1
INVARIANTS
  TypeOK
  TasksOwnNoTables
  OneTask
  
CHECK_DEADLOCK FALSE
