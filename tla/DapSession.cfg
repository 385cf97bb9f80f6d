SPECIFICATION FairSpec
CONSTANTS
  MaxLaunch = 1
  MaxReq = 3
  ClientKinds = {"initialize", "launch", "query", "resume", "plain", "terminate", "disconnect", "detach"}
  MaxStops = 2
  MayPanic = TRUE
INVARIANTS
  NoStaleCommand
  StopShownIsReal
  LaunchComesFirst
  NothingAfterExit
PROPERTIES
  LifecycleSpec
  EveryRequestAnswered
  TerminateEndsVm
  DetachedRunsOn
  ExitIsReported
CHECK_DEADLOCK FALSE
