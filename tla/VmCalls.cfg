CONSTANTS
  Codes = {c1}
  Modules = {m1, m2}
  NoModule = NoModule
  MaxDepth = 2
  MaxRegions = 1
  Modes = {TRUE, FALSE}
  Compositions = TRUE
  Interrupts = TRUE
  Escapes = FALSE
SPECIFICATION FairSpec
INVARIANTS StacksMatch RegionsMatch UnpacksMatch
PROPERTIES EndsClean Refines HaltEnds
CHECK_DEADLOCK FALSE
