SPECIFICATION StartupSpec
CONSTANTS
  Buses = 2
  Slots = 4
  Machines <- MCMachines
  Junk <- MCJunk
INVARIANTS Inventory LeavesQuiet
PROPERTIES ComesUp
CHECK_DEADLOCK FALSE
