SPECIFICATION GraphicsSpec
CONSTANTS
  Items <- MCItems
  Readers = {graphicsUpdate}
  Capacity = 3
  Fill <- MCFill
  Width = 3
  Height = 3
  Place <- MCPlace
  Icon <- MCIcon
  FontHeight = 2
  Written = {"Side"}
  MouseStart = 1
  MaxX = 3
  MaxY = 4
  Deltas <- MCDeltas
  MaxMoves = 1
INVARIANTS ReadsRight InBuffer
PROPERTIES Settles
CHECK_DEADLOCK FALSE
