SPECIFICATION Spec
CONSTANTS
  MaxLaunch = 2
  MaxReq = 3
  ClientKinds = {"launch", "query", "terminate"}
  MaxStops = 1
  MayPanic = FALSE
INVARIANTS
  NoStaleCommand
  LaunchComesFirst
CHECK_DEADLOCK FALSE
