SPECIFICATION Spec
CONSTANTS
  Hosts = {"repl", "exec"}
INVARIANTS
  PromptIsClean
  NoPartialResult
PROPERTIES
  KilledOnlyBySecond
CHECK_DEADLOCK FALSE
