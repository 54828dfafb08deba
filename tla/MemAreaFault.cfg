\* A page of the kernel that is allocated and not present is mapped, says
\* page_fault.
SPECIFICATION FairSpec
CONSTANTS
  FisPages = 17
  TableEntries = 8
  LowPages = 4
  ImagePages = 1
  KernelEntry = 5
  AreaPages = 1
  DirPages = 2
  KernelSizes <- MCKernelSizes
  TaskSizes <- MCTaskSizes
  Descriptors = 4
  MaxHeld = 1
  MaxTaskBlocks = 1
PROPERTY
  AllocatedPageMapped
CHECK_DEADLOCK FALSE
