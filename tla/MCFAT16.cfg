SPECIFICATION FairSpec
CONSTANTS
  BaseLen = 3
  ExtLen = 2
  PartitionOffset = 1
  ReservedSectors = 1
  NumberOfFAT = 2
  SectorsPerFAT = 3
  RootEntries = 5
  SectorSize = 3
  LastCluster = 8
  BadCluster = 10
  Format <- SmallDisk
  Directories = {1, 3}
  Paths <- SomePaths
  Uninitialised <- Memory
  Sizes = {0, 1, 2, 3, 5, 9}
  MaxCalls = 3
INVARIANTS OpenRight ReadExact WriteExact InBounds
PROPERTIES Ends
CHECK_DEADLOCK FALSE
