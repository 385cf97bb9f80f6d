SPECIFICATION Spec
CONSTANTS
  MaxEvals = 2
  MaxRequests = 1
  MaxNotes = 1
  MaxItems = 1
PROPERTIES
  AbortLeavesSessionReady
CHECK_DEADLOCK FALSE
