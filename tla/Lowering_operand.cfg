SPECIFICATION Spec
CONSTANTS
  Shared <- MCShared
  Fuel = 1000
  Programs <- OperandJumps
  Tapes <- MCTapes
INVARIANTS
  MeaningKept
  HeightsAgree
CHECK_DEADLOCK FALSE
