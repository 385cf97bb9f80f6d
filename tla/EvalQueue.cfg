SPECIFICATION FairSpec
CONSTANTS
  Repls = {r1}
  Plots = {p1}
  MaxJobs = 4
  MaxChanges = 2
INVARIANTS
  ShownIsTrue
  SessionIsOwn
  UpdateNotLost
PROPERTIES
  QueueSpec
  StopSettles
CHECK_DEADLOCK FALSE
