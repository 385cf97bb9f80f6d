SPECIFICATION Spec
CONSTANTS
  Shared <- MCShared
  Fuel = 1000
  Programs <- MCPrograms
  Tapes <- MCTapes
INVARIANTS
  OwnedIsLoadedOnce
CHECK_DEADLOCK FALSE
