\* The boot of the memory manager on a machine of sixteen pages.
SPECIFICATION Spec
CONSTANTS
  FisPages = 16
  UWrap = 32
  PageSize = 2
  SizeWrap = 64
  LowPages = 3
  TableEntries = 8
  KernelVirtual = 24
  KernelSizes <- MCKernelSizes
  MemoryMaps <- MCMemoryMaps
  ModuleLists <- MCModuleLists
  InfoPage = 1
  Extras <- MCExtras
  MAX_MMAP = 5
INVARIANTS
  TypeOK
  MemoryKept
  CounterTold
CHECK_DEADLOCK FALSE
