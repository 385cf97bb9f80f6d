SPECIFICATION Spec
CONSTANTS
  Shared <- MCShared
  Fuel = 1000
  Programs <- FirstLoops
  Tapes <- MCTapes
INVARIANTS
  MeaningKept
CHECK_DEADLOCK FALSE
