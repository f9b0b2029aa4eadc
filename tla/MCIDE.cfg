SPECIFICATION FairSpec
CONSTANTS
  Drives = {0, 1}
  Lbas <- SomeLbas
  Start <- SomeStarts
  Lengths = {1, 3, 4, 6}
  LbaCapable = {0}
  Geometry <- SomeGeometry
  Types <- SomeTypes
  ByteValues = 4
  HeadValues = 2
  CountLimit = 4
  HeadsPerCyl = 2
  SectorsPerTrack = 3
  Garbage = Garbage
  MaxCalls = 2
INVARIANTS Exact InStep Confined ReadFlushes
PROPERTIES Returns
CHECK_DEADLOCK FALSE
