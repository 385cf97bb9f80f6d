SPECIFICATION Spec
CONSTANTS
  Shared <- MCShared
  Fuel = 1000
  Programs <- MCPrograms
  Tapes <- MCTapes
INVARIANTS
  MeaningKept
  HeightsAgree
CHECK_DEADLOCK FALSE
