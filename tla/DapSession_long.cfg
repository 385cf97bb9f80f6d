SPECIFICATION Spec
CONSTANTS
  MaxLaunch = 1
  MaxReq = 4
  ClientKinds = {"initialize", "launch", "query", "resume", "plain", "terminate", "disconnect", "detach"}
  MaxStops = 2
  MayPanic = TRUE
INVARIANTS
  NoStaleCommand
  StopShownIsReal
  LaunchComesFirst
  NothingAfterExit
PROPERTIES
  LifecycleSpec
CHECK_DEADLOCK FALSE
