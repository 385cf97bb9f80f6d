CONSTANTS
  Codes = {c1}
  Modules = {m1}
  NoModule = NoModule
  MaxDepth = 2
  MaxRegions = 0
  Modes = {FALSE}
  Compositions = FALSE
  Interrupts = TRUE
  Escapes = FALSE
SPECIFICATION Spec
PROPERTIES LoadedRanToEnd
CHECK_DEADLOCK FALSE
