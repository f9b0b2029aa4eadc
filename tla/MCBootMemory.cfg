SPECIFICATION Spec
CONSTANTS
  Firmwares <- MCFirmwares
  MemoryMaps <- MCMemoryMaps
  Images <- MCImages
  PageSize = 4
  TargetMode = "wanted"
  Sizes = {17}
  MaxHeld = 10
  MaxAddr = 80
  BlockCount = 5
INVARIANTS Loaded BlocksAreTheMap  KernelKept BitmapsInside
CHECK_DEADLOCK FALSE
