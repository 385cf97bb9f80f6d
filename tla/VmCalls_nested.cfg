CONSTANTS
  Codes = {c1}
  Modules = {m1}
  NoModule = NoModule
  MaxDepth = 2
  MaxRegions = 0
  Modes = {TRUE}
  Compositions = TRUE
  Interrupts = FALSE
  Escapes = FALSE
SPECIFICATION Spec
INVARIANTS NestedNeverSuspends
CHECK_DEADLOCK FALSE
