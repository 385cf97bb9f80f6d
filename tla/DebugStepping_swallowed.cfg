CONSTANTS
  Fns = {"f"}
  Main = "main"
  LastPc = 2
  Stmts = {0, 2}
  LineOf <- MCLineOf
  BreakLocs <- MCBreakLocs
  PauseLocs <- MCPauseLocs
  MaxDepth = 3
  MaxTails = 1
  MaxMarks = 1
  Nesting = TRUE
SPECIFICATION Spec
PROPERTIES EveryStepTaken
