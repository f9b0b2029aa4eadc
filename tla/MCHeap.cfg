SPECIFICATION HeapSpec
CONSTANTS
  Region = 30
  H = 2
  Word = 1000
  Requests = {1, 2, 3, 5, 8, 27, 29}
INVARIANTS Succeeds Apart
CHECK_DEADLOCK FALSE
