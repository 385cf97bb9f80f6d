CONSTANTS
  Codes = {c1, c2}
  Modules = {m1}
  NoModule = NoModule
  MaxDepth = 1
  MaxRegions = 2
  Modes = {TRUE, FALSE}
  Compositions = FALSE
  Interrupts = FALSE
  Escapes = FALSE
SPECIFICATION Spec
INVARIANTS RegionsMatch UnpacksMatch
CHECK_DEADLOCK FALSE
