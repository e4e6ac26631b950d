SPECIFICATION Spec
CONSTANTS
  Requests    <- Evaluate
  Hooks       <- OnBreak
  StopOnEntry = TRUE
  Launch      = FALSE
  ScriptEnds  = FALSE
  MaxTasks    = 1
CHECK_DEADLOCK FALSE
INVARIANTS
  NoSelfLock
