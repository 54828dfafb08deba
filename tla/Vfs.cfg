\* Three file systems and three mounts, names of up to five characters.
SPECIFICATION Spec
CONSTANTS
  MaxFs = 3
  MaxMounts = 3
  DevfsDir <- MCDevfsDir
  DevfsName <- MCDevfsName
  InitrdDevice <- MCInitrdDevice
  Filenames <- MCFilenames
INVARIANTS
  MountMeant
  LookupByParts
PROPERTIES
  LookupStable
CHECK_DEADLOCK FALSE
