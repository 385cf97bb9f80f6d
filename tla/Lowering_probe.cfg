SPECIFICATION Spec
CONSTANTS
  Shared <- MCShared
  Fuel = 1000
  Programs <- BareProbes
  Tapes <- MCTapes
INVARIANTS
  MeaningKept
CHECK_DEADLOCK FALSE
