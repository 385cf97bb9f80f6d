CONSTANTS
  a = a
  b = b
  nl = nl
  Letters = {a, b}
  Marks = {nl}
  Newline = nl
  Entry <- TheEntry
  Rest <- TheRest
  Slots = 2
  MaxText = 3
  MaxLog = 6
  MaxLevel = 1
  MaxCommands = 6
SPECIFICATION Spec
INVARIANTS LogAgrees UndoIsWhole YankPopFits KillsComeBack
CHECK_DEADLOCK FALSE
