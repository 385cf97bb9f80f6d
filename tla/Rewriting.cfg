SPECIFICATION HistorySpec
CONSTANTS
  Codes <- MCCodes
  Tapes <- MCTapes
  Bindings <- MCBindings
PROPERTIES
  FusionImplements
  TailsImplement
CHECK_DEADLOCK FALSE
