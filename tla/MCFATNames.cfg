SPECIFICATION NameSpec
CONSTANTS
  BaseLen = 3
  ExtLen = 2
  Letters = {"A", "B"}
  MaxLen = 7
INVARIANTS NamesKept
CHECK_DEADLOCK FALSE
