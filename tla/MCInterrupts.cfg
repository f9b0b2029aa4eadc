SPECIFICATION IRQFairSpec
CONSTANTS
  Lines = {0, 1, 7, 9, 12}
  Handled = {0, 1, 12}
  Polled = {1, 7, 12}
  MaxRaises = 2
INVARIANTS NothingHeldBack
PROPERTIES Served
CHECK_DEADLOCK FALSE
