SPECIFICATION FairSpec
CONSTANTS
  MaxX = 8
  MaxY = 6
  Start = 5
  Deltas <- MCDeltas
  Keys = {"KEY_SHIFT", "a"}
  MaxMoves = 2
  MaxKeys = 3
INVARIANTS Follows HearsKeys
PROPERTIES Drained
CHECK_DEADLOCK FALSE
