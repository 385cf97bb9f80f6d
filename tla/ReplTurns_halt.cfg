SPECIFICATION Spec
CONSTANTS
  Hosts = {"repl"}
INVARIANTS
  StopsForOwnReason
CHECK_DEADLOCK FALSE
