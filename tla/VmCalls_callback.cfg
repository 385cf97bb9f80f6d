CONSTANTS
  Codes = {c1}
  Modules = {m1}
  NoModule = NoModule
  MaxDepth = 2
  MaxRegions = 0
  Modes = {TRUE}
  Compositions = FALSE
  Interrupts = FALSE
  Escapes = FALSE
SPECIFICATION Spec
PROPERTIES CallbackErrorsAreValues
CHECK_DEADLOCK FALSE
