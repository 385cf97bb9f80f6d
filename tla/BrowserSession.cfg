SPECIFICATION Spec
CONSTANTS
  MaxEvals = 2
  MaxRequests = 2
  MaxNotes = 2
  MaxItems = 2
INVARIANTS
  EvaluationLeavesNothing
  LoopAgreesWithCore
  StopsAreCurrent
PROPERTIES
  HandleSpec
  AbortSettles
CHECK_DEADLOCK FALSE
